---- MODULE Spec2Model ----
(***************************************************************************)
(* Model of the placeholder image command of eikon                          *)
(* (src/src/commands/placeholder.ts).                                       *)
(*                                                                         *)
(* Strings are tuples of one-character strings.  Numbers produced by        *)
(* parseFloat / Number are fixed-point integers in thousandths (Milli);     *)
(* numbers produced by parseInt are plain integers.  NaN is one integer     *)
(* outside every value the model computes.                                  *)
(***************************************************************************)
EXTENDS Integers, Sequences, FiniteSets, TLC

Milli == 1000
NaN == -2000000000

Absent == <<"<absent>">>

Digits == {"0", "1", "2", "3", "4", "5", "6", "7", "8", "9"}

DigitVal(c) ==
  CASE c = "0" -> 0 [] c = "1" -> 1 [] c = "2" -> 2 [] c = "3" -> 3
    [] c = "4" -> 4 [] c = "5" -> 5 [] c = "6" -> 6 [] c = "7" -> 7
    [] c = "8" -> 8 [] c = "9" -> 9

HexDigits == Digits \cup {"a", "b", "c", "d", "e", "f", "A", "B", "C", "D", "E", "F"}

HexVal(c) ==
  CASE c \in Digits -> DigitVal(c)
    [] c \in {"a", "A"} -> 10 [] c \in {"b", "B"} -> 11 [] c \in {"c", "C"} -> 12
    [] c \in {"d", "D"} -> 13 [] c \in {"e", "E"} -> 14 [] c \in {"f", "F"} -> 15

WhiteSpace == {" "}

Min2(a, b) == IF a < b THEN a ELSE b
Max2(a, b) == IF a > b THEN a ELSE b
AbsVal(a) == IF a < 0 THEN -a ELSE a

\* Math.ceil of a fixed-point number, as an integer
Ceil(m) == -((-m) \div Milli)

\* String.prototype.slice(from) and slice(from, to) with 0-based indices
SliceFrom(s, from) == SubSeq(s, from + 1, Len(s))
Slice(s, from, to) == SubSeq(s, from + 1, Min2(to, Len(s)))

StartsWith(s, p) == Len(s) >= Len(p) /\ SubSeq(s, 1, Len(p)) = p
EndsWith(s, p) == Len(s) >= Len(p) /\ SubSeq(s, Len(s) - Len(p) + 1, Len(s)) = p

RECURSIVE TrimStart(_)
TrimStart(s) ==
  IF s # <<>> /\ Head(s) \in WhiteSpace THEN TrimStart(Tail(s)) ELSE s

RECURSIVE TrimEnd(_)
TrimEnd(s) ==
  IF s # <<>> /\ s[Len(s)] \in WhiteSpace THEN TrimEnd(SubSeq(s, 1, Len(s) - 1)) ELSE s

Trim(s) == TrimEnd(TrimStart(s))

LowerChar(c) ==
  CASE c = "A" -> "a" [] c = "B" -> "b" [] c = "C" -> "c" [] c = "D" -> "d"
    [] c = "E" -> "e" [] c = "F" -> "f" [] c = "G" -> "g" [] c = "H" -> "h"
    [] c = "I" -> "i" [] c = "J" -> "j" [] c = "K" -> "k" [] c = "L" -> "l"
    [] c = "M" -> "m" [] c = "N" -> "n" [] c = "O" -> "o" [] c = "P" -> "p"
    [] c = "Q" -> "q" [] c = "R" -> "r" [] c = "S" -> "s" [] c = "T" -> "t"
    [] c = "U" -> "u" [] c = "V" -> "v" [] c = "W" -> "w" [] c = "X" -> "x"
    [] c = "Y" -> "y" [] c = "Z" -> "z"
    [] OTHER -> c

ToLowerCase(s) == [i \in 1..Len(s) |-> LowerChar(s[i])]

\* JavaScript truthiness of an optional string option
Truthy(s) == s # Absent /\ s # <<>>

\* a ?? b
Coalesce(a, b) == IF a # Absent THEN a ELSE b

\* the longest prefix of s made of decimal digits
RECURSIVE DigitPrefix(_)
DigitPrefix(s) ==
  IF s # <<>> /\ Head(s) \in Digits THEN <<Head(s)>> \o DigitPrefix(Tail(s)) ELSE <<>>

RECURSIVE DigitsValue(_)
DigitsValue(d) ==
  IF d = <<>> THEN 0 ELSE 10 * DigitsValue(SubSeq(d, 1, Len(d) - 1)) + DigitVal(d[Len(d)])

\* the sign and the rest of a numeric string
IsNegative(t) == t # <<>> /\ Head(t) = "-"
Unsigned(t) == IF t # <<>> /\ Head(t) \in {"-", "+"} THEN Tail(t) ELSE t

IntFromDigits(neg, d) ==
  IF d = <<>> THEN NaN ELSE IF neg THEN -DigitsValue(d) ELSE DigitsValue(d)

\* parseInt(s, 10): leading white space, an optional sign, then the longest
\* digit prefix; NaN when there is no digit
ParseInt10(s) ==
  IntFromDigits(IsNegative(TrimStart(s)), DigitPrefix(Unsigned(TrimStart(s))))

\* the first three fraction digits as thousandths
FractionMilli(d) ==
  LET p == SubSeq(d \o <<"0", "0", "0">>, 1, 3) IN DigitsValue(p)

\* the digits after a decimal point at the head of rest
FractionOf(rest) ==
  IF rest # <<>> /\ Head(rest) = "." THEN DigitPrefix(Tail(rest)) ELSE <<>>

FloatFromParts(neg, ip, fp) ==
  IF ip = <<>> /\ fp = <<>> THEN NaN
  ELSE IF neg THEN -(DigitsValue(ip) * Milli + FractionMilli(fp))
  ELSE DigitsValue(ip) * Milli + FractionMilli(fp)

FloatFromInteger(neg, u, ip) == FloatFromParts(neg, ip, FractionOf(SliceFrom(u, Len(ip))))

FloatTrimmed(t) == FloatFromInteger(IsNegative(t), Unsigned(t), DigitPrefix(Unsigned(t)))

\* parseFloat(s): leading white space, optional sign, digits, optional
\* fraction; parsing stops at the first character that does not fit
ParseFloat(s) == FloatTrimmed(TrimStart(s))

\* whether rest, what follows the integer digits ip, completes a decimal literal
LiteralTail(ip, rest) ==
  IF rest = <<>> THEN ip # <<>>
  ELSE /\ Head(rest) = "."
       /\ DigitPrefix(Tail(rest)) = Tail(rest)
       /\ (ip # <<>> \/ Tail(rest) # <<>>)

IsLiteral(u, ip) == LiteralTail(ip, SliceFrom(u, Len(ip)))

NumberTrimmed(t) ==
  IF t = <<>> THEN 0
  ELSE IF IsLiteral(Unsigned(t), DigitPrefix(Unsigned(t))) THEN FloatTrimmed(t)
  ELSE NaN

\* Number(s): the whole trimmed string must be a decimal literal; the empty
\* string is 0
ToNumber(s) == NumberTrimmed(Trim(s))

IsFinite(n) == n # NaN


\* `${numeric}` for a fixed-point number: sign, integer digits, and the
\* fraction without trailing zeros
RECURSIVE NatToString(_)
NatToString(n) ==
  LET d == <<"0", "1", "2", "3", "4", "5", "6", "7", "8", "9">>[(n % 10) + 1]
  IN IF n < 10 THEN <<d>> ELSE NatToString(n \div 10) \o <<d>>

RECURSIVE StripZeros(_)
StripZeros(s) ==
  IF s # <<>> /\ s[Len(s)] = "0" THEN StripZeros(SubSeq(s, 1, Len(s) - 1)) ELSE s

FractionString(frac) == IF frac = <<>> THEN <<>> ELSE <<".">> \o frac

NumberToString(m) ==
  (IF m < 0 THEN <<"-">> ELSE <<>>) \o NatToString(AbsVal(m) \div Milli)
    \o FractionString(StripZeros(SubSeq(NatToString(1000 + (AbsVal(m) % Milli)), 2, 4)))

\* the position of the first sep in s at or after from, 0 when there is none
RECURSIVE IndexOf(_, _, _)
IndexOf(s, sep, from) ==
  IF from > Len(s) THEN 0 ELSE IF s[from] = sep THEN from ELSE IndexOf(s, sep, from + 1)

RECURSIVE SplitAt(_, _, _)
SplitAt(s, sep, k) ==
  IF k = 0 THEN <<s>>
  ELSE <<SubSeq(s, 1, k - 1)>>
         \o SplitAt(SubSeq(s, k + 1, Len(s)), sep, IndexOf(SubSeq(s, k + 1, Len(s)), sep, 1))

\* s.split(sep) for a one-character separator
Split(s, sep) == SplitAt(s, sep, IndexOf(s, sep, 1))

NonEmpty(h) == IF h = <<>> THEN <<>> ELSE <<h>>

\* parts.map(trim).filter(Boolean)
RECURSIVE TrimAndFilter(_)
TrimAndFilter(parts) ==
  IF parts = <<>> THEN <<>>
  ELSE NonEmpty(Trim(Head(parts))) \o TrimAndFilter(Tail(parts))

(***************************************************************************)
(* Masks                                                                   *)
(***************************************************************************)
KwCircle == <<"c", "i", "r", "c", "l", "e">>
KwRounded == <<"r", "o", "u", "n", "d", "e", "d">>
KwSquircle == <<"s", "q", "u", "i", "r", "c", "l", "e">>

NoError == "none"

\* { type } for "none" and "circle", which have no radius property
MaskShape(type) == [err |-> NoError, type |-> type]
MaskResult(type, radius) == [err |-> NoError, type |-> type, radius |-> radius]
MaskError(e) == [err |-> e, type |-> "none"]

percentRadius(type, percent, width, height) ==
  IF ~IsFinite(percent) \/ percent < 0
  THEN MaskError("Invalid mask radius percentage")
  ELSE MaskResult(type, (Min2(width, height) * percent) \div 100)

pixelRadius(type, radius) ==
  IF ~IsFinite(radius) \/ radius < 0
  THEN MaskError("Invalid mask radius")
  ELSE MaskResult(type, radius)

\* the radius after "rounded:" / "squircle:", in thousandths of a pixel
parseMaskRadius(type, radiusStr, width, height) ==
  IF EndsWith(radiusStr, <<"%">>)
  THEN percentRadius(type, ParseFloat(Slice(radiusStr, 0, Len(radiusStr) - 1)),
                     width, height)
  ELSE pixelRadius(type, ParseFloat(radiusStr))

maskOfTrimmed(trimmed, width, height) ==
  IF trimmed = KwCircle THEN MaskShape("circle")
  ELSE IF trimmed = KwRounded
    THEN MaskResult("rounded", Min2(width, height) * (Milli \div 10))
  ELSE IF trimmed = KwSquircle
    THEN MaskResult("squircle", Min2(width, height) * (Milli \div 10))
  ELSE IF StartsWith(trimmed, KwRounded \o <<":">>)
    THEN parseMaskRadius("rounded",
           Trim(SliceFrom(trimmed, Len(KwRounded) + 1)), width, height)
  ELSE IF StartsWith(trimmed, KwSquircle \o <<":">>)
    THEN parseMaskRadius("squircle",
           Trim(SliceFrom(trimmed, Len(KwSquircle) + 1)), width, height)
  ELSE MaskError("Invalid mask value")

parseMaskSpec(spec, width, height) ==
  IF ~Truthy(spec) THEN MaskShape("none")
  ELSE maskOfTrimmed(ToLowerCase(Trim(spec)), width, height)

\* the effective corner radius buildSquirclePath traces, in thousandths
squircleRadius(width, height, radius) ==
  Min2(radius, Min2((width * Milli) \div 2, (height * Milli) \div 2))

stepsPerCorner == 32

\* |sin(k * pi / 64)| ^ (2/5) for k = 0..32, in thousandths: the superellipse
\* of exponent n = 5 over a quarter turn (its cosine factor is the entry 32 - k)
SuperellipseTable ==
  <<0, 299, 395, 464, 520, 568, 610, 647, 681, 712, 740, 766, 790, 813, 834, 853, 871,
    887, 902, 916, 929, 940, 951, 960, 969, 976, 983, 988, 992, 996, 998, 1000, 1000>>

\* superellipse(t) at step k of the corner starting at `turn` quarter turns
\* after -pi/2: turn 0 is the top-right corner, 1 bottom-right, 2 bottom-left,
\* 3 top-left
superellipse(turn, k) ==
  CASE turn = 0 -> [dx |-> SuperellipseTable[k + 1], dy |-> -SuperellipseTable[33 - k]]
    [] turn = 1 -> [dx |-> SuperellipseTable[33 - k], dy |-> SuperellipseTable[k + 1]]
    [] turn = 2 -> [dx |-> -SuperellipseTable[k + 1], dy |-> SuperellipseTable[33 - k]]
    [] turn = 3 -> [dx |-> -SuperellipseTable[33 - k], dy |-> -SuperellipseTable[k + 1]]

cornerPoint(cx, cy, r, d) ==
  [x |-> cx + (r * d.dx) \div Milli, y |-> cy + (r * d.dy) \div Milli]

\* for (let i = 0; i < stepsPerCorner; i++): the last step left out
cornerWithoutLastStep(cx, cy, r, turn) ==
  [i \in 1..stepsPerCorner |-> cornerPoint(cx, cy, r, superellipse(turn, i - 1))]

\* for (let i = 0; i <= stepsPerCorner; i++) points.push(...)
corner(cx, cy, r, turn) ==
  [i \in 1..(stepsPerCorner + 1) |-> cornerPoint(cx, cy, r, superellipse(turn, i - 1))]

\* the points of the path for the effective radius r; w, h, r in thousandths
squirclePoints(w, h, r) ==
  <<[x |-> r, y |-> 0], [x |-> w - r, y |-> 0]>> \o corner(w - r, r, r, 0)
    \o <<[x |-> w, y |-> r], [x |-> w, y |-> h - r]>> \o corner(w - r, h - r, r, 1)
    \o <<[x |-> w - r, y |-> h], [x |-> r, y |-> h]>> \o corner(r, h - r, r, 2)
    \o <<[x |-> 0, y |-> h - r], [x |-> 0, y |-> r]>> \o corner(r, r, r, 3)

\* the points buildSquirclePath joins into "M x y L x y ... Z"
buildSquirclePath(width, height, radius) ==
  squirclePoints(width * Milli, height * Milli, squircleRadius(width, height, radius))

\* the radius each mask shape is drawn with by buildMaskSvg, in thousandths
maskDrawnRadius(width, height, mask) ==
  CASE mask.type = "circle" -> (Min2(width, height) * Milli) \div 2
    [] mask.type = "rounded" -> mask.radius
    [] mask.type = "squircle" -> squircleRadius(width, height, mask.radius)
    [] OTHER -> 0

(***************************************************************************)
(* Colours                                                                 *)
(***************************************************************************)
RECURSIVE HexPrefix(_)
HexPrefix(s) ==
  IF s # <<>> /\ Head(s) \in HexDigits THEN <<Head(s)>> \o HexPrefix(Tail(s)) ELSE <<>>

RECURSIVE HexValue(_)
HexValue(d) ==
  IF d = <<>> THEN 0 ELSE 16 * HexValue(SubSeq(d, 1, Len(d) - 1)) + HexVal(d[Len(d)])

Without0x(u) ==
  IF Len(u) >= 2 /\ u[1] = "0" /\ u[2] \in {"x", "X"} THEN SliceFrom(u, 2) ELSE u

HexFromDigits(neg, d) ==
  IF d = <<>> THEN NaN ELSE IF neg THEN -HexValue(d) ELSE HexValue(d)

Hex16Trimmed(t) == HexFromDigits(IsNegative(t), HexPrefix(Without0x(Unsigned(t))))

\* parseInt(s, 16): leading white space, an optional sign, an optional 0x
\* prefix, then the longest prefix of hex digits; NaN when that is empty
ParseInt16(s) == Hex16Trimmed(TrimStart(s))

\* alpha is kept in units of 1/AlphaOne
AlphaOne == 255000000
TScale == 1000000

ColorError == [ok |-> FALSE, r |-> 0, g |-> 0, b |-> 0, alpha |-> 0]
Color(r, g, b, alpha) == [ok |-> TRUE, r |-> r, g |-> g, b |-> b, alpha |-> alpha]

channelsValid(r, g, b) ==
  \A v \in {r, g, b} : ~(v = NaN \/ v < 0 \/ v > 255)

\* lines 314-318
checkedColor(r, g, b, alpha) ==
  IF channelsValid(r, g, b) THEN Color(r, g, b, alpha) ELSE ColorError

alphaOf(a) == IF a = NaN THEN NaN ELSE a * (AlphaOne \div 255)

parseHex(hex) ==
  IF Len(hex) = 3
  THEN checkedColor(ParseInt16(<<hex[1], hex[1]>>), ParseInt16(<<hex[2], hex[2]>>),
                    ParseInt16(<<hex[3], hex[3]>>), AlphaOne)
  ELSE IF Len(hex) = 6
  THEN checkedColor(ParseInt16(Slice(hex, 0, 2)), ParseInt16(Slice(hex, 2, 4)),
                    ParseInt16(Slice(hex, 4, 6)), AlphaOne)
  ELSE IF Len(hex) = 8
  THEN checkedColor(ParseInt16(Slice(hex, 0, 2)), ParseInt16(Slice(hex, 2, 4)),
                    ParseInt16(Slice(hex, 4, 6)), alphaOf(ParseInt16(Slice(hex, 6, 8))))
  ELSE ColorError

parseHexColor(color) ==
  parseHex(IF StartsWith(color, <<"#">>) THEN SliceFrom(color, 1) ELSE color)

SrgbLinearTable ==
  <<
     0, 30, 61, 91, 121, 152, 182, 212, 243, 273, 304, 335,
     368, 402, 439, 478, 518, 561, 605, 651, 700, 750, 802, 857,
     913, 972, 1033, 1096, 1161, 1229, 1298, 1370, 1444, 1521, 1600, 1681,
     1764, 1850, 1938, 2029, 2122, 2217, 2315, 2416, 2519, 2624, 2732, 2843,
     2956, 3071, 3190, 3310, 3434, 3560, 3689, 3820, 3955, 4092, 4231, 4374,
     4519, 4667, 4817, 4971, 5127, 5286, 5448, 5613, 5781, 5951, 6125, 6301,
     6480, 6663, 6848, 7036, 7227, 7421, 7619, 7819, 8022, 8228, 8438, 8650,
     8866, 9084, 9306, 9531, 9759, 9990, 10224, 10462, 10702, 10946, 11193, 11444,
     11697, 11954, 12214, 12477, 12744, 13014, 13287, 13563, 13843, 14126, 14413, 14703,
     14996, 15293, 15593, 15896, 16203, 16513, 16827, 17144, 17465, 17789, 18116, 18447,
     18782, 19120, 19462, 19807, 20156, 20508, 20864, 21223, 21586, 21953, 22323, 22697,
     23074, 23455, 23840, 24228, 24620, 25016, 25415, 25818, 26225, 26636, 27050, 27468,
     27889, 28315, 28744, 29177, 29614, 30054, 30499, 30947, 31399, 31855, 32314, 32778,
     33245, 33716, 34191, 34670, 35153, 35640, 36131, 36625, 37124, 37626, 38133, 38643,
     39157, 39676, 40198, 40724, 41254, 41789, 42327, 42869, 43415, 43966, 44520, 45079,
     45641, 46208, 46778, 47353, 47932, 48515, 49102, 49693, 50289, 50888, 51492, 52100,
     52712, 53328, 53948, 54572, 55201, 55834, 56471, 57112, 57758, 58408, 59062, 59720,
     60383, 61050, 61721, 62396, 63076, 63760, 64448, 65141, 65837, 66539, 67244, 67954,
     68669, 69387, 70110, 70838, 71569, 72306, 73046, 73791, 74540, 75294, 76052, 76815,
     77582, 78354, 79130, 79910, 80695, 81485, 82279, 83077, 83880, 84687, 85499, 86316,
     87137, 87962, 88792, 89627, 90466, 91310, 92158, 93011, 93869, 94731, 95597, 96469,
     97345, 98225, 99110, 100000
  >>

\* srgbToLinear(value), in units of 1/100000
srgbToLinear(value) == SrgbLinearTable[value + 1]

\* relativeLuminance(color), in units of 1/LumOne
LumOne == 10000
relativeLuminance(color) ==
  (2126 * srgbToLinear(color.r) + 7152 * srgbToLinear(color.g)
     + 722 * srgbToLinear(color.b)) \div 100000

\* contrastRatio(l1, l2), in units of 1/100000
contrastRatio(l1, l2) ==
  LET lighter == Max2(l1, l2)
      darker == Min2(l1, l2)
  IN ((lighter + LumOne \div 20) * 100000) \div (darker + LumOne \div 20)

White == <<"#", "f", "f", "f", "f", "f", "f">>
Black == <<"#", "0", "0", "0", "0", "0", "0">>

autoTextColor(bgColor) ==
  LET bgLum == relativeLuminance(bgColor)
      whiteLum == relativeLuminance(Color(255, 255, 255, AlphaOne))
      blackLum == relativeLuminance(Color(0, 0, 0, AlphaOne))
  IN IF contrastRatio(whiteLum, bgLum) > contrastRatio(blackLum, bgLum)
     THEN White ELSE Black

oppositeTextColor(color) ==
  IF ToLowerCase(color) = White THEN Black ELSE White

clamp(value, min, max) ==
  IF value < min THEN min ELSE IF value > max THEN max ELSE value


\* Math.round(n / d) for n >= 0: the nearest integer, halves upwards
RoundDiv(n, d) == (2 * n + d) \div (2 * d)

\* the integer square root, by bisection
RECURSIVE ISqrtIn(_, _, _)
ISqrtIn(n, lo, hi) ==
  IF lo >= hi THEN lo
  ELSE LET mid == (lo + hi + 1) \div 2
       IN IF mid * mid <= n THEN ISqrtIn(n, mid, hi) ELSE ISqrtIn(n, lo, mid - 1)

ISqrt(n) == ISqrtIn(n, 0, 46340)

\* a % b of JavaScript: the sign follows the dividend
JsRem(a, b) == IF a < 0 THEN -((-a) % b) ELSE a % b

(***************************************************************************)
(* Backgrounds                                                             *)
(***************************************************************************)
\* a negative number nearer to zero than 1e-14, which the thousandths cannot hold
NegTiny == -1999999999

\* the fraction digits fp are more than 14, the first 14 of them zeros, and
\* one of the others is not
TinyFraction(fp) ==
  /\ Len(fp) > 14
  /\ \A i \in 1..14 : fp[i] = "0"
  /\ \E i \in 15..Len(fp) : fp[i] # "0"

\* t is a decimal literal -0.00000000000000d... or -.00000000000000d...
IsTinyNegative(t) ==
  /\ IsNegative(t)
  /\ IsLiteral(Unsigned(t), DigitPrefix(Unsigned(t)))
  /\ DigitsValue(DigitPrefix(Unsigned(t))) = 0
  /\ TinyFraction(FractionOf(SliceFrom(Unsigned(t), Len(DigitPrefix(Unsigned(t))))))

\* for NegTiny, normalized is the number itself, it is < 0, and
\* normalized + 360 is the double 360 (half an ulp of 360 is 2.8e-14)
normalizeAngle(value) ==
  IF ~IsFinite(value) THEN 0
  ELSE IF value = NegTiny THEN 360 * Milli
  ELSE LET normalized == JsRem(value, 360 * Milli)
       IN IF normalized < 0 THEN normalized + 360 * Milli ELSE normalized

\* parseNumber: NaN stands for the thrown UsageError
parseNumber(value) == ToNumber(value)

lengthOf(numeric, unit, suffix) ==
  IF ~IsFinite(numeric)
  THEN [ok |-> FALSE, raw |-> <<>>, value |-> 0, unit |-> unit]
  ELSE [ok |-> TRUE, raw |-> NumberToString(numeric) \o suffix, value |-> numeric,
        unit |-> unit]

lengthOfTrimmed(trimmed) ==
  IF EndsWith(trimmed, <<"%">>)
  THEN lengthOf(parseNumber(Slice(trimmed, 0, Len(trimmed) - 1)), "percent", <<"%">>)
  ELSE lengthOf(parseNumber(trimmed), "px", <<>>)

parseLength(value) == lengthOfTrimmed(Trim(value))

NoBackground ==
  [err |-> NoError, type |-> "unset", color |-> <<>>, colors |-> <<>>, angleDeg |-> 0,
   cx |-> <<>>, cy |-> <<>>, r |-> <<>>, center |-> [x |-> 0, y |-> 0], radius |-> 0]

BackgroundError(e) == [NoBackground EXCEPT !.err = e]

SolidBackground(color) == [NoBackground EXCEPT !.type = "solid", !.color = color]

\* parseNumber(angleStr, "angle") as normalizeAngle receives it
angleOf(angleStr) ==
  IF IsTinyNegative(Trim(angleStr)) THEN NegTiny ELSE parseNumber(angleStr)

linearOfParts(parts) ==
  IF Len(parts) # 3 THEN BackgroundError("Invalid --bg-linear value")
  ELSE IF ~parseHexColor(parts[1]).ok \/ ~parseHexColor(parts[2]).ok
    THEN BackgroundError("Invalid hex color")
  ELSE IF ~IsFinite(parseNumber(parts[3])) THEN BackgroundError("Invalid angle")
  ELSE [NoBackground EXCEPT !.type = "linear",
                            !.colors = <<parts[1], parts[2]>>,
                            !.angleDeg = normalizeAngle(angleOf(parts[3]))]

parseBgLinearSpec(spec) == linearOfParts(TrimAndFilter(Split(spec, ",")))

Percent(n) == NatToString(n) \o <<"%">>

\* a length resolved against a base when it is a percentage
resolveLength(len, base) ==
  IF len.unit = "percent" THEN (len.value * base) \div 100 ELSE len.value

radialOfLengths(parts, cx, cy, r, width, height) ==
  IF ~parseHexColor(parts[1]).ok \/ ~parseHexColor(parts[2]).ok
    THEN BackgroundError("Invalid hex color")
  ELSE IF ~cx.ok THEN BackgroundError("Invalid radial cx")
  ELSE IF ~cy.ok THEN BackgroundError("Invalid radial cy")
  ELSE IF ~r.ok THEN BackgroundError("Invalid radial r")
  ELSE [NoBackground EXCEPT
          !.type = "radial",
          !.colors = <<parts[1], parts[2]>>,
          !.cx = cx.raw, !.cy = cy.raw, !.r = r.raw,
          !.center = [x |-> resolveLength(cx, width), y |-> resolveLength(cy, height)],
          !.radius = resolveLength(r, Min2(width, height))]

\* parts[k], or the default when the spec has fewer fields
partOr(parts, k, default) == IF Len(parts) >= k THEN parts[k] ELSE default

radialOfParts(parts, width, height) ==
  IF Len(parts) < 2 \/ Len(parts) > 5 THEN BackgroundError("Invalid --bg-radial value")
  ELSE radialOfLengths(parts, parseLength(partOr(parts, 3, Percent(50))),
                       parseLength(partOr(parts, 4, Percent(50))),
                       parseLength(partOr(parts, 5, Percent(75))), width, height)

parseBgRadialSpec(spec, width, height) ==
  radialOfParts(TrimAndFilter(Split(spec, ",")), width, height)

\* a + (b - a) * 1 computed in IEEE 754 doubles (round to nearest, ties to
\* even) for the alphas a/255 and b/255, less the double b/255, in units of
\* 2^-60: 1 + (0.2 - 1) is 0.19999999999999996, every other pair of the
\* alphas 0, 0x33, 0x80 and 0xff gives b/255 back
endDrift(a, b) ==
  CASE a = 255 /\ b = 51 -> -64
    [] a \in {0, 51, 128, 255} /\ b \in {0, 51, 128, 255} /\ <<a, b>> # <<255, 51>> -> 0

\* a.alpha + (b.alpha - a.alpha) * clamped: NaN when either alpha is NaN;
\* a.alpha when clamped is 0 (the product is a zero); the double of endDrift
\* when clamped is 1; in between it is kept to the nearest 1/AlphaOne only
alphaDriftOf(a, b, clamped) ==
  IF a.alpha = NaN \/ b.alpha = NaN THEN 0
  ELSE IF clamped = TScale /\ a.alpha # b.alpha
    THEN endDrift(a.alpha \div TScale, b.alpha \div TScale)
  ELSE 0

\* a ParsedColor whose alpha is alpha / AlphaOne + alphaDrift * 2^-60
Sampled(color, drift) ==
  [ok |-> TRUE, r |-> color.r, g |-> color.g, b |-> color.b, alpha |-> color.alpha,
   alphaDrift |-> drift]

\* t is in units of 1/TScale
interpolateRounded(a, b, clamped) ==
  Color(RoundDiv(a.r * TScale + (b.r - a.r) * clamped, TScale),
        RoundDiv(a.g * TScale + (b.g - a.g) * clamped, TScale),
        RoundDiv(a.b * TScale + (b.b - a.b) * clamped, TScale),
        IF a.alpha = NaN \/ b.alpha = NaN THEN NaN
        ELSE a.alpha + ((b.alpha - a.alpha) \div TScale) * clamped)

interpolateClamped(a, b, clamped) ==
  Sampled(interpolateRounded(a, b, clamped), alphaDriftOf(a, b, clamped))

interpolateColor(a, b, t) == interpolateClamped(a, b, clamp(t, 0, TScale))

\* cosine and sine of the gradient angles the model draws, in units of 1/10000
Cos4(angleDeg) ==
  CASE angleDeg = 0 -> 10000 [] angleDeg = 45 * Milli -> 7071
    [] angleDeg = 90 * Milli -> 0 [] angleDeg = 135 * Milli -> -7071
    [] angleDeg = 180 * Milli -> -10000 [] angleDeg = 225 * Milli -> -7071
    [] angleDeg = 270 * Milli -> 0 [] angleDeg = 315 * Milli -> 7071

Sin4(angleDeg) ==
  CASE angleDeg = 0 -> 0 [] angleDeg = 45 * Milli -> 7071
    [] angleDeg = 90 * Milli -> 10000 [] angleDeg = 135 * Milli -> 7071
    [] angleDeg = 180 * Milli -> 0 [] angleDeg = 225 * Milli -> -7071
    [] angleDeg = 270 * Milli -> -10000 [] angleDeg = 315 * Milli -> -7071


\* linearT with the angle read as a compass bearing (0 up, clockwise)
linearTBearing(spec, point) ==
  clamp(TScale \div 2 + (point.x - 50) * Sin4(spec.angleDeg)
          - (point.y - 50) * Cos4(spec.angleDeg), 0, TScale)

\* the interpolation parameter of a linear gradient at a point given in
\* hundredths of the canvas
linearT(spec, point) ==
  clamp(TScale \div 2 + (point.x - 50) * Cos4(spec.angleDeg)
          + (point.y - 50) * Sin4(spec.angleDeg), 0, TScale)

sampleLinearGradient(spec, point) ==
  interpolateColor(parseHexColor(spec.colors[1]), parseHexColor(spec.colors[2]),
                   linearT(spec, point))

\* dist / radius clamped to [0,1]; both in tenths of a pixel
ratioT(dist, radius) ==
  IF radius = 0 \/ dist >= radius THEN TScale
  ELSE clamp(((dist * 100000) \div radius) * 10, 0, TScale)

distance(dx, dy) == ISqrt(dx * dx + dy * dy)

\* the interpolation parameter of a radial gradient; distances in tenths of a pixel
radialT(spec, point, width, height) ==
  IF spec.radius > 0
  THEN ratioT(distance((point.x * width) \div 10 - spec.center.x \div 100,
                       (point.y * height) \div 10 - spec.center.y \div 100),
              spec.radius \div 100)
  ELSE TScale

sampleRadialGradient(spec, point, width, height) ==
  interpolateColor(parseHexColor(spec.colors[1]), parseHexColor(spec.colors[2]),
                   radialT(spec, point, width, height))

samplePoints ==
  <<[x |-> 50, y |-> 50], [x |-> 5, y |-> 5], [x |-> 95, y |-> 5],
    [x |-> 5, y |-> 95], [x |-> 95, y |-> 95]>>

sampleBackground(background, point, width, height) ==
  IF background.type = "linear" THEN sampleLinearGradient(background, point)
  ELSE sampleRadialGradient(background, point, width, height)

\* Math.min(...values)
RECURSIVE MinOf(_)
MinOf(values) ==
  IF Len(values) = 1 THEN values[1] ELSE Min2(Head(values), MinOf(Tail(values)))

RECURSIVE MaxOf(_)
MaxOf(values) ==
  IF Len(values) = 1 THEN values[1] ELSE Max2(Head(values), MaxOf(Tail(values)))

whiteContrastOf(color) ==
  contrastRatio(relativeLuminance(Color(255, 255, 255, AlphaOne)), relativeLuminance(color))

blackContrastOf(color) ==
  contrastRatio(relativeLuminance(Color(0, 0, 0, AlphaOne)), relativeLuminance(color))


\* pickByWorstContrast judging by the centre sample alone
pickByCentreContrast(samples) ==
  IF whiteContrastOf(samples[1]) > blackContrastOf(samples[1]) THEN White ELSE Black

\* lines 514-524
pickByWorstContrast(samples) ==
  IF MinOf([i \in 1..Len(samples) |-> whiteContrastOf(samples[i])])
       > MinOf([i \in 1..Len(samples) |-> blackContrastOf(samples[i])])
  THEN White ELSE Black

autoTextColorForGradient(background, width, height) ==
  IF background.type = "solid" THEN autoTextColor(parseHexColor(background.color))
  ELSE pickByWorstContrast([i \in 1..Len(samplePoints) |->
         sampleBackground(background, samplePoints[i], width, height)])

(***************************************************************************)
(* Text                                                                    *)
(***************************************************************************)
BackslashChar == "\\"
NewlineChar == "\n"

\* rawText.replace("\\n", "\n"): the first escape only
RECURSIVE ReplaceFirstEscape(_)
ReplaceFirstEscape(s) ==
  IF s = <<>> THEN <<>>
  ELSE IF Len(s) >= 2 /\ s[1] = BackslashChar /\ s[2] = "n"
    THEN <<NewlineChar>> \o SliceFrom(s, 2)
  ELSE <<Head(s)>> \o ReplaceFirstEscape(Tail(s))

\* rawText.replace(/\\n/g, "\n")
RECURSIVE ReplaceEscapes(_)
ReplaceEscapes(s) ==
  IF s = <<>> THEN <<>>
  ELSE IF Len(s) >= 2 /\ s[1] = BackslashChar /\ s[2] = "n"
    THEN <<NewlineChar>> \o ReplaceEscapes(SliceFrom(s, 2))
  ELSE <<Head(s)>> \o ReplaceEscapes(Tail(s))

\* estimateTextSize, in tenths of a pixel
estimateTextSize(lines, fontSize) ==
  LET maxLineLength == MaxOf([i \in 1..Len(lines) |-> Len(lines[i])])
  IN [width |-> maxLineLength * fontSize * 6,
      height |-> Len(lines) * fontSize * 12]

(***************************************************************************)
(* Options of one invocation                                               *)
(***************************************************************************)
BaseOpts ==
  [out |-> <<"a", ".", "p", "n", "g">>, width |-> Absent, height |-> Absent, w |-> <<"1", "0", "0">>, h |-> <<"5", "0">>,
   bgColor |-> <<"#", "1", "1", "1", "8", "2", "7">>, bgLinear |-> Absent, bgRadial |-> Absent,
   text |-> Absent, textColor |-> Absent, fontWeight |-> Absent, fontSize |-> Absent,
   padding |-> Absent, textOutline |-> FALSE, textOutlineColor |-> Absent,
   textOutlineWidth |-> Absent, textShadow |-> FALSE, textShadowColor |-> Absent,
   textShadowDx |-> Absent, textShadowDy |-> Absent, textShadowBlur |-> Absent,
   textShadowOpacity |-> Absent, mask |-> Absent, force |-> FALSE,
   json |-> TRUE, plain |-> FALSE, quiet |-> FALSE]

LongText == <<"T", "h", "i", "s", " ", "i", "s", " ", "a", " ", "v", "e", "r", "y", " ", "l", "o", "n", "g", " ", "t", "e", "x", "t", " ", "t", "h", "a", "t", " ", "s", "h", "o", "u", "l", "d", " ", "b", "e", " ", "s", "h", "r", "u", "n", "k", " ", "t", "o", " ", "f", "i", "t">>

\* sizes, texts and fitting
FitScenarios ==
  { [BaseOpts EXCEPT !.w = w, !.h = h, !.fontSize = fs, !.text = t, !.padding = p,
                     !.textOutline = o] :
      w \in {<<"1", "0", "0">>, <<"3", "0">>, <<"4", "0", "0">>, <<"1">>},
      h \in {<<"5", "0">>, <<"4", "0", "0">>},
      fs \in {Absent, <<"1", "0", "0">>, <<"5">>, <<"8">>, <<"9">>},
      t \in {Absent, LongText, <<"L", "i", "n", "e", " ", "1", "\\", "n", "L", "i", "n", "e", " ", "2">>},
      p \in {Absent, <<"0">>, <<"5", "0">>},
      o \in BOOLEAN }

\* texts with no, one and several escapes, a real line break, and no text
TextInputs ==
  {Absent, <<>>, <<"a">>, <<"\\", "n">>, <<"a", "\\", "n", "b", "\\", "n", "c">>,
   <<"a", "\\", "n", "\\", "n", "b">>, <<"a", "\n", "b", "\\", "n", "c">>,
   <<"\\", "\\", "n", "n">>, <<"a", "\\", "t", "b">>, <<"n", "\\">>}

TextScenarios ==
  { [BaseOpts EXCEPT !.text = t, !.w = w, !.h = h] :
      t \in TextInputs,
      w \in {<<"1", "0", "0">>, <<"4", "0", "0">>},
      h \in {<<"5", "0">>, <<"4", "0", "0">>} }

\* dimension, padding and font inputs that fail validation
InvalidScenarios ==
  { [BaseOpts EXCEPT !.width = wd, !.w = w, !.h = h] :
      wd \in {Absent, <<"1", "0", "0">>, <<"2", "0", "0">>},
      w \in {Absent, <<"1", "0", "0">>, <<"0">>, <<"a", "b", "c">>, <<"1", "2", "p", "x">>, <<"-", "5">>},
      h \in {Absent, <<"5", "0">>, <<"x">>} }
  \cup
  { [BaseOpts EXCEPT !.fontSize = fs, !.padding = p, !.fontWeight = fw] :
      fs \in {Absent, <<"0">>, <<"-", "3">>, <<"b", "i", "g">>, <<"1", "2", ".", "7">>},
      p \in {Absent, <<"-", "1">>, <<"p", "a", "d">>, <<"1", "0">>},
      fw \in {Absent, <<"b", "o", "l", "d">>, <<"7", "0", "0">>, <<"h", "e", "a", "v", "y">>} }

ColorInputs ==
  {<<"#", "0", "0", "0", "0", "0", "0">>, <<"#", "f", "f", "f", "f", "f", "f">>, <<"#", "1", "1", "1", "8", "2", "7">>, <<"#", "0", "0", "0">>, <<"#", "F", "F", "F">>, <<"f", "f", "f">>, <<"#", "a", "a", "b", "b", "c", "c", "d", "d">>,
   <<"#", "0", "e", "a", "5", "e", "9">>, <<"#", "8", "0", "8", "0", "8", "0">>, <<"#", "7", "7", "7", "7", "7", "7">>, <<"#", "f", "f", "0", "0", "0", "0">>,
   <<"n", "o", "t", "-", "a", "-", "c", "o", "l", "o", "r">>, <<"#", "1", "2", "3", "4", "5", "g">>, <<"#", "1", "g", "3", "4", "5", "6">>, <<"#", "g", "1", "2", "3", "4", "5">>, <<"#", "1", "1", "2", "2", "3", "3", "z", "z">>, <<"#", "1", "1", "2", "2", "3", "g", "4">>,
   <<"#", "g", "g", "g">>, <<"#", "f", "f">>, <<"#", "1", "2", " ", "4", "5", "6">>, <<"#", "+", "f", "0", "0", "0", "0">>, <<"#", "0", "x", "0", "0", "0", "0">>, <<>>}

ColorScenarios ==
  { [BaseOpts EXCEPT !.bgColor = bg, !.textColor = tc] :
      bg \in ColorInputs,
      tc \in {Absent, <<"#", "f", "f", "0", "0", "0", "0">>, <<"#", "F", "F", "F", "F", "F", "F">>, <<"#", "f", "f", "f">>, <<"#", "0", "0", "0", "0", "0", "g">>, <<"r", "e", "d">>, <<>>} }

LinearInputs ==
  {<<"#", "1", "1", "1", "8", "2", "7", ",", "#", "0", "e", "a", "5", "e", "9", ",", "1", "3", "5">>, <<"#", "f", "f", "f", "f", "f", "f", ",", "#", "0", "0", "0", "0", "0", "0", ",", "0">>, <<"#", "0", "0", "0", ",", "#", "f", "f", "f", ",", "-", "9", "0">>, <<"#", "0", "0", "0", "0", "0", "0", ",", "#", "f", "f", "f", "f", "f", "f", ",", "4", "5">>,
   <<"#", "f", "f", "f", "f", "f", "f", ",", "#", "7", "7", "7", "7", "7", "7", ",", "1", "8", "0">>, <<" ", "#", "f", "f", "f", " ", ",", " ", "#", "0", "0", "0", " ", ",", " ", "3", "6", "0", " ">>, <<"#", "8", "0", "8", "0", "8", "0", ",", "#", "f", "f", "f", "f", "f", "f", ",", "-", "3", "6", "0">>,
   <<"#", "0", "0", "0", ",", "#", "f", "f", "f">>, <<"#", "0", "0", "0", ",", ",", "#", "f", "f", "f", ",", "9", "0">>, <<"#", "0", "0", "0", ",", "#", "f", "f", "f", ",", "9", "0", ",", "1">>, <<"#", "0", "0", "0", ",", "#", "g", "g", "g", ",", "9", "0">>, <<"#", "0", "0", "0", ",", "#", "f", "f", "f", ",", "u", "p">>}

RadialInputs ==
  {<<"#", "f", "f", "f", ",", "#", "0", "0", "0", ",", ",", ",", ",", ",">>, <<"#", "f", "f", "f", ",", "#", "0", "0", "0", ",", "0", "5", "0", "%", ",", "5", ".", "0">>, <<"#", "f", "f", "f", ",", "#", "0", "0", "0", ",", ",", "1", "0", ",", "2", "0">>, <<"#", "f", "f", "f", "f", "f", "f", ",", "#", "0", "0", "0", "0", "0", "0">>, <<"#", "5", "5", "5", "5", "5", "5", ",", "#", "f", "f", "f", "f", "f", "f">>, <<"#", "0", "0", "0", ",", "#", "f", "f", "f", ",", "5", "0", "%", ",", "5", "0", "%", ",", "7", "5", "%">>, <<"#", "1", "1", "1", "8", "2", "7", ",", "#", "0", "e", "a", "5", "e", "9", ",", "0", ",", "0", ",", "1", "0">>,
   <<"#", "f", "f", "f", ",", "#", "0", "0", "0", ",", "2", "5", "%", ",", "2", "5", "%">>, <<"#", "0", "0", "0", "0", "0", "0", ",", "#", "f", "f", "f", "f", "f", "f", ",", "5", "0", ",", "2", "5", ",", "0">>, <<"#", "f", "f", "f", ",", "#", "0", "0", "0", ",", "5", "0", "%", ",", "5", "0", "%", ",", "-", "5">>,
   <<"#", "f", "f", "f", "f", "f", "f", ",", "#", "8", "0", "8", "0", "8", "0", ",", "1", "0", "%">>, <<"#", "f", "f", "f">>, <<"#", "f", "f", "f", ",", "#", "0", "0", "0", ",", "1", ",", "2", ",", "3", ",", "4">>, <<"#", "f", "f", "f", ",", "#", "0", "0", "0", ",", "l", "e", "f", "t">>,
   <<"#", "f", "f", "f", ",", "#", "z", "z", "z">>, <<"#", "f", "f", "f", ",", "#", "0", "0", "0", ",", "5", "0", "%", ",", "t", "o", "p", "%">>}

BackgroundScenarios ==
  { [BaseOpts EXCEPT !.bgColor = bg, !.bgLinear = lin, !.bgRadial = rad, !.w = w] :
      bg \in {Absent, <<"#", "0", "0", "0">>, <<>>},
      lin \in {Absent} \cup LinearInputs,
      rad \in {Absent, <<"#", "f", "f", "f", "f", "f", "f", ",", "#", "0", "0", "0", "0", "0", "0">>},
      w \in {<<"1", "0", "0">>, <<"4", "0">>} }
  \cup
  { [BaseOpts EXCEPT !.bgColor = bg, !.bgLinear = lin, !.bgRadial = rad, !.w = w] :
      bg \in {Absent, <<"#", "0", "0", "0">>, <<>>},
      lin \in {Absent, <<"#", "1", "1", "1", "8", "2", "7", ",", "#", "0", "e", "a", "5", "e", "9", ",", "1", "3", "5">>},
      rad \in RadialInputs,
      w \in {<<"1", "0", "0">>, <<"4", "0">>} }

MaskInputs ==
  {<<"c", "i", "r", "c", "l", "e">>, <<"r", "o", "u", "n", "d", "e", "d">>, <<"s", "q", "u", "i", "r", "c", "l", "e">>, <<"R", "o", "u", "n", "d", "e", "d", ":", "1", "5", "%">>, <<"r", "o", "u", "n", "d", "e", "d", ":", "1", "0", "0", "0">>, <<"r", "o", "u", "n", "d", "e", "d", ":", "2", "0">>,
   <<"s", "q", "u", "i", "r", "c", "l", "e", ":", "6", "0", "%">>, <<"s", "q", "u", "i", "r", "c", "l", "e", ":", "1", "0", "0", "0">>, <<" ", "s", "q", "u", "i", "r", "c", "l", "e", ":", "1", "2", ".", "5", " ">>, <<"r", "o", "u", "n", "d", "e", "d", ":", "0">>, <<"r", "o", "u", "n", "d", "e", "d", ":", "5", "0", "%">>,
   <<"r", "o", "u", "n", "d", "e", "d", ":", "-", "5">>, <<"r", "o", "u", "n", "d", "e", "d", ":", "a", "b", "c">>, <<"s", "q", "u", "i", "r", "c", "l", "e", ":", "-", "1", "%">>, <<"s", "q", "u", "i", "r", "c", "l", "e", ":", "x", "%">>, <<"s", "t", "a", "r">>, <<>>,
   <<"r", "o", "u", "n", "d", "e", "d", ":", "1", "0", "a", "b", "c">>, <<"s", "q", "u", "i", "r", "c", "l", "e", ":", "5", "x", "%">>, <<"r", "o", "u", "n", "d", "e", "d", ":">>, <<"c", "i", "r", "c", "l", "e", ":", "5">>, <<"s", "q", "u", "i", "r", "c", "l", "e", ":", "1", "0", "%">>}

MaskScenarios ==
  { [BaseOpts EXCEPT !.mask = m, !.w = w, !.h = h] :
      m \in MaskInputs,
      w \in {<<"8", "0", "0">>, <<"1", "0", "0">>, <<"5", "5">>},
      h \in {<<"4", "0", "0">>, <<"5", "0">>} }

EffectScenarios ==
  { [BaseOpts EXCEPT !.textOutline = o, !.textOutlineWidth = ow, !.textShadow = s,
                     !.textShadowDy = dy, !.textShadowBlur = bl, !.fontSize = fs] :
      o \in BOOLEAN,
      ow \in {Absent, <<"2", ".", "5">>, <<"0">>, <<"w", "i", "d", "e">>},
      s \in BOOLEAN,
      dy \in {Absent, <<"-", "4">>, <<"o", "o", "p", "s">>},
      bl \in {Absent, <<"3">>, <<"-", "5", "0">>},
      fs \in {Absent, <<"4", "0">>} }
  \cup
  { [BaseOpts EXCEPT !.textOutline = TRUE, !.textShadow = TRUE, !.textOutlineColor = oc,
                     !.textShadowColor = sc, !.textShadowOpacity = op, !.textShadowDx = dx] :
      oc \in {Absent, <<"#", "f", "f", "0">>, <<"n", "o", "p", "e">>},
      sc \in {Absent, <<"#", "0", "0", "f">>, <<"#", "1", "2", "3", "4">>},
      op \in {Absent, <<"0", ".", "5">>, <<"1", ".", "5">>, <<"-", "1">>, <<"h", "a", "l", "f">>},
      dx \in {Absent, <<"6">>, <<"1", "e">>} }

OutputScenarios ==
  { [BaseOpts EXCEPT !.out = out, !.force = f, !.json = j, !.plain = pl, !.quiet = q] :
      out \in {<<"a", ".", "p", "n", "g">>, <<"a", ".", "J", "P", "G">>, <<"b", ".", "j", "p", "e", "g">>, <<"a", ".", "w", "e", "b", "p">>, <<"a", ".", "g", "i", "f">>, <<"n", "o", "e", "x", "t">>},
      f \in BOOLEAN, j \in BOOLEAN, pl \in BOOLEAN, q \in BOOLEAN }


\* both spellings of a dimension given
AliasScenarios ==
  { [BaseOpts EXCEPT !.width = wd, !.w = w, !.height = ht, !.h = h] :
      wd \in {Absent, <<"1", "0", "0">>, <<"0", "1", "0", "0">>, <<>>},
      w \in {Absent, <<"1", "0", "0">>, <<"1", "0", "0", "p", "x">>, <<"2", "0", "0">>},
      ht \in {Absent, <<"5", "0">>, <<"5", "0", ".", "0">>},
      h \in {Absent, <<"5", "0">>, <<"6", "0">>} }

OptionSets ==
  FitScenarios \cup InvalidScenarios \cup ColorScenarios \cup BackgroundScenarios
    \cup MaskScenarios \cup EffectScenarios \cup OutputScenarios \cup AliasScenarios \cup TextScenarios

(***************************************************************************)
(* placeholderCommand                                                      *)
(***************************************************************************)
MaxRuns == 2

VARIABLES
  opts,               \* the options of the invocation
  fileExists,         \* whether the resolved output path exists
  fileWrites,         \* how many times the command has written the output path
  fileContent,        \* what the output path holds
  stdout,             \* the results printed so far
  run,                \* which invocation is running
  outcomes,           \* the outcome of each finished invocation
  pc,                 \* position inside placeholderCommand
  err,                \* the error thrown, if any
  width, height, mask, background, rawText, lines, autoContrastText, textColor,
  padding, fontWeight, initialFontSize, fontSize, textEffects, effectivePadding,
  mime, result,
  shrinkCount,        \* iterations of the auto-shrink loop in this invocation
  call,               \* a library function called on its own, with its arguments
  ret                 \* what that call returned or threw

env == <<fileExists, fileWrites, fileContent, stdout>>
ctl == <<pc, err, outcomes>>
locals ==
  <<width, height, mask, background, rawText, lines, autoContrastText, textColor,
    padding, fontWeight, initialFontSize, fontSize, textEffects, effectivePadding,
    mime, result, shrinkCount>>
lib == <<call, ret>>
vars == <<opts, env, run, ctl, locals, lib>>

minFontSize == 8

NoEffects ==
  [outline |-> [enabled |-> FALSE, color |-> <<>>, width |-> 0],
   shadow |-> [enabled |-> FALSE, color |-> <<>>, dx |-> 0, dy |-> 0, blur |-> 0,
               opacity |-> 0]]

NoResult ==
  [ok |-> FALSE, width |-> 0, height |-> 0, background |-> NoBackground, text |-> <<>>,
   textColor |-> <<>>, font |-> [weight |-> <<>>, size |-> 0], textEffects |-> NoEffects,
   fitting |-> [padding |-> 0, effectivePadding |-> 0, minFontSize |-> 0,
                finalFontSize |-> 0],
   mask |-> MaskShape("none")]

\* index.ts: enum ExitCode
ExitCodeSuccess == 0
ExitCodeUsageError == 2
ExitCodeFilesystemError == 5

\* what the encoder is given: the bytes written are a function of these
Image(w, h, m, bg, ls, color, weight, size, effects, format) ==
  [width |-> w, height |-> h, mask |-> m, background |-> bg, lines |-> ls,
   textColor |-> color, fontWeight |-> weight, fontSize |-> size,
   textEffects |-> effects, mime |-> format]

NoImage ==
  Image(0, 0, MaskShape("none"), NoBackground, <<>>, <<>>, <<>>, 0, NoEffects, "")

\* the output path does not exist
NoFile == [kind |-> "none", image |-> NoImage]

\* the output path holds something written before the first invocation
PreviousFile == [kind |-> "previous", image |-> NoImage]

\* no library function is called on its own while the command runs
NoCall == [fn |-> "none"]
NoReturn == [fn |-> "none"]

InitLocals ==
  /\ width = 0 /\ height = 0
  /\ mask = MaskShape("none")
  /\ background = NoBackground
  /\ rawText = <<>> /\ lines = <<>>
  /\ autoContrastText = <<>> /\ textColor = <<>>
  /\ padding = 0 /\ fontWeight = <<>>
  /\ initialFontSize = 0 /\ fontSize = 0
  /\ textEffects = NoEffects
  /\ effectivePadding = 0
  /\ mime = ""
  /\ result = NoResult
  /\ shrinkCount = 0

Init ==
  /\ opts \in OptionSets
  /\ fileExists \in BOOLEAN
  /\ fileWrites = 0
  /\ fileContent = IF fileExists THEN PreviousFile ELSE NoFile
  /\ stdout = <<>>
  /\ run = 1
  /\ outcomes = <<>>
  /\ pc = "dimensions"
  /\ err = NoError
  /\ InitLocals
  /\ call = NoCall
  /\ ret = NoReturn

Goto(label) == pc' = label /\ UNCHANGED <<err, outcomes>>

\* throw: the invocation ends with the error and without a result; cli.ts
\* exits with the error's exit code
Throw(code, e) ==
  /\ pc' = "failed"
  /\ err' = e
  /\ outcomes' = Append(outcomes, [ok |-> FALSE, err |-> e, code |-> code,
                                   result |-> NoResult])

\* throw new UsageError
Fail(e) == Throw(ExitCodeUsageError, e)


\* the overwrite refusal thrown as a usage error
FailFilesystemAsUsage(e) == Throw(ExitCodeUsageError, e)

\* throw new FilesystemError
FailFilesystem(e) == Throw(ExitCodeFilesystemError, e)

\* lines 726-755: alias resolution and dimension parsing
dimensionError ==
  LET widthStr == Coalesce(opts.width, opts.w)
      heightStr == Coalesce(opts.height, opts.h)
  IN IF Truthy(opts.width) /\ Truthy(opts.w) /\ opts.width # opts.w
       THEN "Conflicting values for --width and --w"
     ELSE IF Truthy(opts.height) /\ Truthy(opts.h) /\ opts.height # opts.h
       THEN "Conflicting values for --height and --h"
     ELSE IF ~Truthy(widthStr) THEN "Missing required option: --width"
     ELSE IF ~Truthy(heightStr) THEN "Missing required option: --height"
     ELSE IF ParseInt10(widthStr) = NaN \/ ParseInt10(widthStr) <= 0 THEN "Invalid width"
     ELSE IF ParseInt10(heightStr) = NaN \/ ParseInt10(heightStr) <= 0 THEN "Invalid height"
     ELSE NoError

ResolveDimensions ==
  /\ pc = "dimensions"
  /\ IF dimensionError # NoError
     THEN Fail(dimensionError) /\ UNCHANGED <<width, height>>
     ELSE /\ width' = ParseInt10(Coalesce(opts.width, opts.w))
          /\ height' = ParseInt10(Coalesce(opts.height, opts.h))
          /\ Goto("mask")
  /\ UNCHANGED <<opts, lib, env, run, mask, background, rawText, lines, autoContrastText,
                 textColor, padding, fontWeight, initialFontSize, fontSize, textEffects,
                 effectivePadding, mime, result, shrinkCount>>

\* line 758
applyMask(m) ==
  IF m.err # NoError
  THEN Fail(m.err) /\ UNCHANGED mask
  ELSE mask' = m /\ Goto("background")

ResolveMask ==
  /\ pc = "mask"
  /\ applyMask(parseMaskSpec(opts.mask, width, height))
  /\ UNCHANGED <<opts, lib, env, run, width, height, background, rawText, lines,
                 autoContrastText, textColor, padding, fontWeight, initialFontSize,
                 fontSize, textEffects, effectivePadding, mime, result, shrinkCount>>

\* [opts.bgColor, opts.bgLinear, opts.bgRadial].filter(Boolean).length
backgroundInputs ==
  Cardinality({k \in {"bgColor", "bgLinear", "bgRadial"} : Truthy(opts[k])})


\* resolveBackground without the check that only one input is given
resolveBackgroundFirstWins ==
  IF Truthy(opts.bgColor)
    THEN (IF parseHexColor(opts.bgColor).ok THEN SolidBackground(opts.bgColor)
          ELSE BackgroundError("Invalid hex color"))
  ELSE IF Truthy(opts.bgLinear) THEN parseBgLinearSpec(opts.bgLinear)
  ELSE IF Truthy(opts.bgRadial) THEN parseBgRadialSpec(opts.bgRadial, width, height)
  ELSE BackgroundError("Provide one of --bg-color, --bg-linear, or --bg-radial")

\* lines 760-779
resolveBackground ==
  IF backgroundInputs = 0
    THEN BackgroundError("Provide one of --bg-color, --bg-linear, or --bg-radial")
  ELSE IF backgroundInputs > 1
    THEN BackgroundError("Choose only one of --bg-color, --bg-linear, or --bg-radial")
  ELSE IF Truthy(opts.bgColor)
    THEN (IF parseHexColor(opts.bgColor).ok THEN SolidBackground(opts.bgColor)
          ELSE BackgroundError("Invalid hex color"))
  ELSE IF Truthy(opts.bgLinear) THEN parseBgLinearSpec(opts.bgLinear)
  ELSE IF Truthy(opts.bgRadial) THEN parseBgRadialSpec(opts.bgRadial, width, height)
  ELSE BackgroundError("Provide one of --bg-color, --bg-linear, or --bg-radial")

applyBackground(bg) ==
  IF bg.err # NoError
  THEN Fail(bg.err) /\ UNCHANGED background
  ELSE background' = bg /\ Goto("text")

ResolveBackground ==
  /\ pc = "background"
  /\ applyBackground(resolveBackground)
  /\ UNCHANGED <<opts, lib, env, run, width, height, mask, rawText, lines,
                 autoContrastText, textColor, padding, fontWeight, initialFontSize,
                 fontSize, textEffects, effectivePadding, mime, result, shrinkCount>>

\* lines 781-793: the text, its lines and the text colour
applyText(raw, auto) ==
  /\ rawText' = raw
  /\ lines' = Split(ReplaceEscapes(raw), NewlineChar)
  /\ autoContrastText' = auto
  /\ textColor' = Coalesce(opts.textColor, auto)
  /\ IF Truthy(opts.textColor) /\ ~parseHexColor(opts.textColor).ok
     THEN Fail("Invalid hex color")
     ELSE Goto("padding")

ResolveText ==
  /\ pc = "text"
  /\ applyText(Coalesce(opts.text, NatToString(width) \o <<"x">> \o NatToString(height)),
               autoTextColorForGradient(background, width, height))
  /\ UNCHANGED <<opts, lib, env, run, width, height, mask, background, padding, fontWeight,
                 initialFontSize, fontSize, textEffects, effectivePadding, mime, result, shrinkCount>>

DefaultPadding == 24

\* lines 795-799
ResolvePadding ==
  /\ pc = "padding"
  /\ LET p == IF Truthy(opts.padding) THEN ParseInt10(opts.padding) ELSE DefaultPadding
     IN /\ padding' = p
        /\ IF p = NaN \/ p < 0 THEN Fail("Invalid padding") ELSE Goto("font")
  /\ UNCHANGED <<opts, lib, env, run, width, height, mask, background, rawText, lines,
                 autoContrastText, textColor, fontWeight, initialFontSize, fontSize,
                 textEffects, effectivePadding, mime, result, shrinkCount>>

validWeights ==
  {<<"n", "o", "r", "m", "a", "l">>, <<"b", "o", "l", "d">>, <<"1", "0", "0">>, <<"2", "0", "0">>, <<"3", "0", "0">>, <<"4", "0", "0">>, <<"5", "0", "0">>, <<"6", "0", "0">>, <<"7", "0", "0">>,
   <<"8", "0", "0">>, <<"9", "0", "0">>}

\* the font size before auto-shrink, lines 815-817
startFontSize ==
  IF Truthy(opts.fontSize) THEN ParseInt10(opts.fontSize)
  ELSE Min2(width, height) \div 6

\* lines 801-821
ResolveFont ==
  /\ pc = "font"
  /\ LET weight == Coalesce(opts.fontWeight, <<"n", "o", "r", "m", "a", "l">>)
     IN /\ fontWeight' = weight
        /\ IF weight \notin validWeights
           THEN Fail("Invalid font weight") /\ UNCHANGED <<initialFontSize, fontSize>>
           ELSE /\ fontSize' = startFontSize
                /\ initialFontSize' = startFontSize
                /\ IF Truthy(opts.fontSize) /\ (startFontSize = NaN \/ startFontSize <= 0)
                   THEN Fail("Invalid font size")
                   ELSE Goto("effects")
  /\ UNCHANGED <<opts, lib, env, run, width, height, mask, background, rawText, lines,
                 autoContrastText, textColor, padding, textEffects, effectivePadding,
                 mime, result, shrinkCount>>

\* an optional numeric option: parseNumber of the value, or the default
numberOption(value, default) == IF Truthy(value) THEN parseNumber(value) ELSE default

defaultOutlineWidth == Max2(1, RoundDiv(fontSize * 8, 100)) * Milli
defaultShadowBlur == Max2(1, RoundDiv(fontSize * 12, 100)) * Milli

effectColorDefault ==
  IF ToLowerCase(autoContrastText) = ToLowerCase(textColor)
  THEN oppositeTextColor(autoContrastText)
  ELSE autoContrastText

\* lines 823-867: the effect settings, or the first error thrown on the way
resolveEffects ==
  LET textOutlineEnabled == opts.textOutline = TRUE
      textShadowEnabled == opts.textShadow = TRUE
      parsedWidth == numberOption(opts.textOutlineWidth, defaultOutlineWidth)
      outlineColor == Coalesce(opts.textOutlineColor, effectColorDefault)
      shadowDx == numberOption(opts.textShadowDx, 0)
      shadowDy == numberOption(opts.textShadowDy, 2 * Milli)
      shadowBlur == numberOption(opts.textShadowBlur, defaultShadowBlur)
      shadowOpacity == numberOption(opts.textShadowOpacity, 350)
      shadowColor == Coalesce(opts.textShadowColor, effectColorDefault)
      e == IF ~IsFinite(parsedWidth) THEN "Invalid text outline width"
           ELSE IF textOutlineEnabled /\ parsedWidth <= 0 THEN "Invalid text outline width"
           ELSE IF ~parseHexColor(outlineColor).ok THEN "Invalid hex color"
           ELSE IF ~IsFinite(shadowDx) THEN "Invalid text shadow dx"
           ELSE IF ~IsFinite(shadowDy) THEN "Invalid text shadow dy"
           ELSE IF ~IsFinite(shadowBlur) THEN "Invalid text shadow blur"
           ELSE IF ~IsFinite(shadowOpacity) THEN "Invalid text shadow opacity"
           ELSE IF shadowOpacity < 0 \/ shadowOpacity > Milli
             THEN "Invalid text shadow opacity"
           ELSE IF ~parseHexColor(shadowColor).ok THEN "Invalid hex color"
           ELSE NoError
  IN [err |-> e,
      effects |->
        [outline |-> [enabled |-> textOutlineEnabled, color |-> outlineColor,
                      width |-> IF textOutlineEnabled THEN parsedWidth ELSE 0],
         shadow |-> [enabled |-> textShadowEnabled, color |-> shadowColor,
                     dx |-> shadowDx, dy |-> shadowDy, blur |-> shadowBlur,
                     opacity |-> shadowOpacity]]]

\* the effect paddings added whether or not the effect is enabled
computeEffectivePaddingAlways(pad, effects) ==
  pad + Ceil(effects.outline.width)
      + Ceil(Max2(AbsVal(effects.shadow.dx), AbsVal(effects.shadow.dy)) + effects.shadow.blur)

\* lines 870-874
computeEffectivePadding(pad, effects) ==
  LET shadowPadding ==
        IF effects.shadow.enabled
        THEN Ceil(Max2(AbsVal(effects.shadow.dx), AbsVal(effects.shadow.dy))
                    + effects.shadow.blur)
        ELSE 0
      outlinePadding == IF effects.outline.enabled THEN Ceil(effects.outline.width) ELSE 0
  IN pad + outlinePadding + shadowPadding

ResolveEffects ==
  /\ pc = "effects"
  /\ IF resolveEffects.err # NoError
     THEN Fail(resolveEffects.err) /\ UNCHANGED <<textEffects, effectivePadding>>
     ELSE /\ textEffects' = resolveEffects.effects
          /\ effectivePadding' = computeEffectivePadding(padding, resolveEffects.effects)
          /\ Goto("shrink")
  /\ UNCHANGED <<opts, lib, env, run, width, height, mask, background, rawText, lines,
                 autoContrastText, textColor, padding, fontWeight, initialFontSize,
                 fontSize, mime, result, shrinkCount>>

\* the loop condition looking at the width of the estimate only
overflowsWidthOnly(size) ==
  estimateTextSize(lines, size).width > 10 * (width - 2 * effectivePadding)

\* the loop condition of lines 881-884; the estimate is in tenths of a pixel
overflows(size) ==
  LET estimated == estimateTextSize(lines, size)
      maxTextWidth == width - 2 * effectivePadding
      maxTextHeight == height - 2 * effectivePadding
  IN estimated.width > 10 * maxTextWidth \/ estimated.height > 10 * maxTextHeight


\* the loop condition asking for both dimensions to overflow
shrinkConditionBothOverflow ==
  /\ estimateTextSize(lines, fontSize).width > 10 * (width - 2 * effectivePadding)
  /\ estimateTextSize(lines, fontSize).height > 10 * (height - 2 * effectivePadding)
  /\ fontSize > minFontSize

shrinkCondition == overflows(fontSize) /\ fontSize > minFontSize


\* the shrink step rounding up instead of down
shrunkRoundingUp(size) == Max2(minFontSize, (size * 9 + 9) \div 10)

\* line 885
shrunk(size) == Max2(minFontSize, (size * 9) \div 10)

\* an iteration that also recomputes the default shadow blur from the new size
ShrinkStepRefreshingBlur ==
  /\ pc = "shrink"
  /\ shrinkCondition
  /\ fontSize' = shrunk(fontSize)
  /\ shrinkCount' = shrinkCount + 1
  /\ textEffects' =
       [textEffects EXCEPT !.shadow.blur =
          IF Truthy(opts.textShadowBlur) THEN @
          ELSE Max2(1, RoundDiv(shrunk(fontSize) * 12, 100)) * Milli]
  /\ UNCHANGED <<opts, lib, env, run, ctl, width, height, mask, background, rawText, lines,
                 autoContrastText, textColor, padding, fontWeight, initialFontSize,
                 effectivePadding, mime, result>>

\* one iteration of the auto-shrink loop
ShrinkStep ==
  /\ pc = "shrink"
  /\ shrinkCondition
  /\ fontSize' = shrunk(fontSize)
  /\ shrinkCount' = shrinkCount + 1
  /\ UNCHANGED <<opts, lib, env, run, ctl, width, height, mask, background, rawText, lines,
                 autoContrastText, textColor, padding, fontWeight, initialFontSize,
                 textEffects, effectivePadding, mime, result>>

\* the loop exits
ShrinkExit ==
  /\ pc = "shrink"
  /\ ~shrinkCondition
  /\ Goto("output")
  /\ UNCHANGED <<opts, lib, env, run, locals>>

\* extname(outPath).toLowerCase()
RECURSIVE LastIndexOf(_, _)
LastIndexOf(s, c) ==
  IF s = <<>> THEN 0 ELSE IF s[Len(s)] = c THEN Len(s)
  ELSE LastIndexOf(SubSeq(s, 1, Len(s) - 1), c)

extname(path) ==
  LET k == LastIndexOf(path, ".")
  IN IF k <= 1 THEN <<>> ELSE ToLowerCase(SubSeq(path, k, Len(path)))

getMimeFromExtension(outPath) ==
  LET ext == extname(outPath)
  IN IF ext = <<".", "p", "n", "g">> THEN "image/png"
     ELSE IF ext \in {<<".", "j", "p", "g">>, <<".", "j", "p", "e", "g">>} THEN "image/jpeg"
     ELSE IF ext = <<".", "w", "e", "b", "p">> THEN "image/webp"
     ELSE "unsupported"



\* PrepareOutput refusing an existing file whether or not --force is given
PrepareOutputIgnoringForce ==
  /\ pc = "output"
  /\ IF getMimeFromExtension(opts.out) = "unsupported"
     THEN Fail("Unsupported output format") /\ UNCHANGED mime
     ELSE /\ mime' = getMimeFromExtension(opts.out)
          /\ IF fileExists
             THEN FailFilesystem("Output already exists")
             ELSE Goto("render")
  /\ UNCHANGED <<opts, lib, env, run, width, height, mask, background, rawText, lines,
                 autoContrastText, textColor, padding, fontWeight, initialFontSize,
                 fontSize, textEffects, effectivePadding, result, shrinkCount>>

\* PrepareOutput with the output file opened for writing before the checks
PrepareOutputTouchingFile ==
  /\ pc = "output"
  /\ fileExists' = TRUE
  /\ fileWrites' = fileWrites + 1
  /\ fileContent' = [kind |-> "truncated", image |-> NoImage]
  /\ IF getMimeFromExtension(opts.out) = "unsupported"
     THEN Fail("Unsupported output format") /\ UNCHANGED mime
     ELSE /\ mime' = getMimeFromExtension(opts.out)
          /\ IF fileExists /\ ~opts.force
             THEN FailFilesystem("Output already exists")
             ELSE Goto("render")
  /\ UNCHANGED <<opts, lib, stdout, run, width, height, mask, background, rawText, lines,
                 autoContrastText, textColor, padding, fontWeight, initialFontSize,
                 fontSize, textEffects, effectivePadding, result, shrinkCount>>

\* lines 891-900: the output format and the overwrite check
PrepareOutput ==
  /\ pc = "output"
  /\ LET m == getMimeFromExtension(opts.out)
     IN IF m = "unsupported" THEN Fail("Unsupported output format") /\ UNCHANGED mime
        ELSE /\ mime' = m
             /\ IF fileExists /\ ~opts.force
                THEN FailFilesystem("Output already exists")
                ELSE Goto("render")
  /\ UNCHANGED <<opts, lib, env, run, width, height, mask, background, rawText, lines,
                 autoContrastText, textColor, padding, fontWeight, initialFontSize,
                 fontSize, textEffects, effectivePadding, result, shrinkCount>>

\* lines 902-969: the image is built in memory; buildTextSvg parses the text colour
Render ==
  /\ pc = "render"
  /\ IF ~parseHexColor(textColor).ok THEN Fail("Invalid hex color") ELSE Goto("write")
  /\ UNCHANGED <<opts, lib, env, run, locals>>

\* lines 902-969: what is encoded into outputBytes
renderedImage ==
  Image(width, height, mask, background, lines, textColor, fontWeight, fontSize,
        textEffects, mime)

\* lines 971-973
WriteOutput ==
  /\ pc = "write"
  /\ fileExists' = TRUE
  /\ fileWrites' = fileWrites + 1
  /\ fileContent' = [kind |-> "image", image |-> renderedImage]
  /\ Goto("report")
  /\ UNCHANGED <<opts, lib, stdout, run, locals>>

\* lines 975-1024
buildResult ==
  [ok |-> TRUE, width |-> width, height |-> height, background |-> background,
   text |-> rawText, textColor |-> textColor,
   font |-> [weight |-> fontWeight, size |-> fontSize],
   textEffects |-> textEffects,
   fitting |-> [padding |-> padding, effectivePadding |-> effectivePadding,
                minFontSize |-> minFontSize, finalFontSize |-> fontSize],
   mask |-> mask]

\* lines 975-1053: the result is built and, unless --quiet alone is given, printed
Report ==
  /\ pc = "report"
  /\ result' = buildResult
  /\ stdout' = IF opts.json \/ opts.plain \/ ~opts.quiet
               THEN Append(stdout, buildResult) ELSE stdout
  /\ pc' = "done"
  /\ outcomes' = Append(outcomes, [ok |-> TRUE, err |-> NoError, code |-> ExitCodeSuccess,
                                   result |-> buildResult])
  /\ UNCHANGED <<opts, lib, fileExists, fileWrites, fileContent, run, err, width, height, mask, background,
                 rawText, lines, autoContrastText, textColor, padding, fontWeight,
                 initialFontSize, fontSize, textEffects, effectivePadding, mime, shrinkCount>>

ResetLocals ==
  /\ width' = 0 /\ height' = 0
  /\ mask' = MaskShape("none")
  /\ background' = NoBackground
  /\ rawText' = <<>> /\ lines' = <<>>
  /\ autoContrastText' = <<>> /\ textColor' = <<>>
  /\ padding' = 0 /\ fontWeight' = <<>>
  /\ initialFontSize' = 0 /\ fontSize' = 0
  /\ textEffects' = NoEffects
  /\ effectivePadding' = 0
  /\ mime' = ""
  /\ result' = NoResult
  /\ shrinkCount' = 0

\* the command is invoked again with the same options
Rerun ==
  /\ pc \in {"done", "failed"}
  /\ run < MaxRuns
  /\ run' = run + 1
  /\ pc' = "dimensions"
  /\ err' = NoError
  /\ ResetLocals
  /\ UNCHANGED <<opts, lib, env, outcomes>>

Next ==
  \/ ResolveDimensions
  \/ ResolveMask
  \/ ResolveBackground
  \/ ResolveText
  \/ ResolvePadding
  \/ ResolveFont
  \/ ResolveEffects
  \/ ShrinkStep
  \/ ShrinkExit
  \/ PrepareOutput
  \/ Render
  \/ WriteOutput
  \/ Report
  \/ Rerun

Spec == Init /\ [][Next]_vars

\* the command runs on one thread without awaiting anything inside the loop:
\* once the auto-shrink loop is entered, its next step is taken
FairSpec == Spec /\ WF_vars(ShrinkStep) /\ WF_vars(ShrinkExit)

TypeOK ==
  /\ pc \in {"dimensions", "mask", "background", "text", "padding", "font", "effects",
             "shrink", "output", "render", "write", "report", "done", "failed"}
  /\ run \in 1..MaxRuns
  /\ fileExists \in BOOLEAN
  /\ fileExists <=> fileContent.kind # "none"
  /\ Len(outcomes) \in {run - 1, run}



(***************************************************************************)
(* resize.ts                                                               *)
(***************************************************************************)
\* an option of ResizeOptions: undefined, a string or a number (thousandths)
Undefined == [type |-> "undefined", str |-> <<>>, num |-> 0]
Str(s) == [type |-> "string", str |-> s, num |-> 0]
Num(n) == [type |-> "number", str |-> <<>>, num |-> n]

\* typeof v === "string" ? Number(v) : v
numberOf(v) == IF v.type = "string" THEN ToNumber(v.str) ELSE v.num

\* Number.isInteger
IsInteger(n) == n # NaN /\ n % Milli = 0

ResizeThrow(message) ==
  [ok |-> FALSE, error |-> "UsageError", message |-> message,
   width |-> 0, height |-> 0, scale |-> [num |-> 0, den |-> 1]]

\* { width, height, scale }, the scale kept as the fraction num / den
ResizeResult(w, h, num, den) ==
  [ok |-> TRUE, error |-> "none", message |-> "",
   width |-> w, height |-> h, scale |-> [num |-> num, den |-> den]]

DownscaleNotAllowed == "Downscale not allowed. Target dimensions must be >= original."

scaledTarget(original, scale, w, h) ==
  IF w < original.width \/ h < original.height THEN ResizeThrow(DownscaleNotAllowed)
  ELSE ResizeResult(w, h, scale, Milli)

\* lines 29-40
resizeByScale(original, scale) ==
  IF ~IsFinite(scale) \/ scale <= Milli
  THEN ResizeThrow("Invalid --scale. Expected a number > 1.")
  ELSE scaledTarget(original, scale, RoundDiv(original.width * scale, Milli),
                    RoundDiv(original.height * scale, Milli))

\* lines 42-53, with the test of line 47 left out
resizeByWidthUnchecked(original, w) ==
  IF ~IsInteger(w) \/ w <= 0
  THEN ResizeThrow("Invalid --width. Expected a positive integer.")
  ELSE ResizeResult(w \div Milli,
                    RoundDiv(original.height * (w \div Milli), original.width),
                    w \div Milli, original.width)

\* lines 42-53
resizeByWidth(original, w) ==
  IF ~IsInteger(w) \/ w <= 0
  THEN ResizeThrow("Invalid --width. Expected a positive integer.")
  ELSE IF w \div Milli < original.width THEN ResizeThrow(DownscaleNotAllowed)
  ELSE ResizeResult(w \div Milli,
                    RoundDiv(original.height * (w \div Milli), original.width),
                    w \div Milli, original.width)

\* lines 55-66
resizeByHeight(original, h) ==
  IF ~IsInteger(h) \/ h <= 0
  THEN ResizeThrow("Invalid --height. Expected a positive integer.")
  ELSE IF h \div Milli < original.height THEN ResizeThrow(DownscaleNotAllowed)
  ELSE ResizeResult(RoundDiv(original.width * (h \div Milli), original.height),
                    h \div Milli, h \div Milli, original.height)

\* Number(scaleProvided) + Number(widthProvided) + Number(heightProvided)
providedCount(o) ==
  Cardinality({k \in {"scale", "width", "height"} : o[k] # Undefined})

resolveResizeTarget(original, o) ==
  IF providedCount(o) > 1
    THEN ResizeThrow("Provide only one of: --scale, --width, --height.")
  ELSE IF o.scale # Undefined THEN resizeByScale(original, numberOf(o.scale))
  ELSE IF o.width # Undefined THEN resizeByWidth(original, numberOf(o.width))
  ELSE IF o.height # Undefined THEN resizeByHeight(original, numberOf(o.height))
  ELSE ResizeResult(RoundDiv(original.width * 2, 1), RoundDiv(original.height * 2, 1), 2, 1)

Originals ==
  {[width |-> 1000, height |-> 500], [width |-> 3, height |-> 1], [width |-> 7, height |-> 5]}

ScaleInputs ==
  {Undefined, Str(<<"2", ".", "5">>), Str(<<"1">>), Str(<<"0", ".", "5">>), Str(<<"a", "b", "c">>), Str(<<>>), Str(<<"1", ".", "5">>),
   Num(2000), Num(1000), Num(1001), Num(NaN), Num(-2000)}

WidthInputs ==
  {Undefined, Str(<<"3", "0", "0", "0">>), Str(<<"1", "2", "p", "x">>), Str(<<"4">>), Num(3000000), Num(900000),
   Num(3000500), Num(0), Num(-5000), Num(1000000), Num(7000), Num(2000)}

HeightInputs ==
  {Undefined, Str(<<"1", "2", "0", "0">>), Str(<<"x">>), Num(1200000), Num(400000), Num(0), Num(5000),
   Num(1000), Num(500000)}

ResizeCalls ==
  { [fn |-> "resolveResizeTarget", original |-> original,
     opts |-> [scale |-> s, width |-> w, height |-> h]] :
      original \in Originals, s \in ScaleInputs, w \in WidthInputs, h \in HeightInputs }

CallResolveResizeTarget ==
  /\ call.fn = "resolveResizeTarget"
  /\ ret = NoReturn
  /\ ret' = [fn |-> call.fn, value |-> resolveResizeTarget(call.original, call.opts)]
  /\ UNCHANGED <<opts, env, run, ctl, locals, call>>

(***************************************************************************)
(* The library functions called on their own                               *)
(***************************************************************************)
\* points of the unit square, in hundredths
UnitPoints == { [x |-> x, y |-> y] : x \in {0, 5, 50, 95, 100}, y \in {0, 5, 50, 95, 100} }

LinearSpecs ==
  { parseBgLinearSpec(spec) :
      spec \in {<<"#", "f", "f", "f", "f", "f", "f", ",", "#", "0", "0", "0", "0", "0", "0", ",", "0">>, <<"#", "f", "f", "f", "f", "f", "f", ",", "#", "0", "0", "0", "0", "0", "0", "3", "3", ",", "0">>, <<"#", "0", "0", "0", "0", "0", "0", "3", "3", ",", "#", "f", "f", "f", "f", "f", "f", ",", "9", "0">>,
                <<"#", "1", "1", "1", "8", "2", "7", ",", "#", "0", "e", "a", "5", "e", "9", ",", "1", "3", "5">>, <<"#", "0", "0", "0", ",", "#", "f", "f", "f", ",", "4", "5">>, <<"#", "f", "f", "f", "f", "f", "f", "8", "0", ",", "#", "0", "0", "0", "0", "0", "0", "f", "f", ",", "1", "8", "0">>,
                <<"#", "1", "1", "2", "2", "3", "3", "z", "z", ",", "#", "f", "f", "f", "f", "f", "f", ",", "2", "7", "0">>} }

SampleLinearCalls ==
  { [fn |-> "sampleLinearGradient", spec |-> spec, point |-> point] :
      spec \in LinearSpecs, point \in UnitPoints }

RadialSpecStrings ==
  {<<"#", "f", "f", "f", "f", "f", "f", ",", "#", "0", "0", "0", "0", "0", "0">>, <<"#", "f", "f", "f", "f", "f", "f", ",", "#", "0", "0", "0", "0", "0", "0", "3", "3">>, <<"#", "f", "f", "f", ",", "#", "0", "0", "0", ",", "5", "0", "%", ",", "5", "0", "%", ",", "0">>,
   <<"#", "f", "f", "f", "f", "f", "f", ",", "#", "0", "0", "0", "0", "0", "0", "3", "3", ",", "5", "0", "%", ",", "5", "0", "%", ",", "0">>, <<"#", "f", "f", "f", ",", "#", "0", "0", "0", ",", "5", "0", "%", ",", "5", "0", "%", ",", "-", "5">>, <<"#", "0", "0", "0", "0", "0", "0", ",", "#", "f", "f", "f", "f", "f", "f", ",", "0", ",", "0", ",", "1", "0">>, <<"#", "1", "1", "2", "2", "3", "3", "z", "z", ",", "#", "f", "f", "f", "f", "f", "f", ",", "5", "0", "%", ",", "5", "0", "%", ",", "0">>}

SampleRadialCalls ==
  { [fn |-> "sampleRadialGradient", spec |-> parseBgRadialSpec(spec, size.width, size.height),
     point |-> point, width |-> size.width, height |-> size.height] :
      spec \in RadialSpecStrings, point \in UnitPoints,
      size \in {[width |-> 100, height |-> 50], [width |-> 40, height |-> 40]} }

StopColors ==
  { parseHexColor(color) :
      color \in {<<"#", "f", "f", "f", "f", "f", "f">>, <<"#", "0", "0", "0">>, <<"#", "0", "0", "0", "0", "0", "0", "3", "3">>, <<"#", "1", "1", "1", "8", "2", "7">>, <<"#", "0", "e", "a", "5", "e", "9">>, <<"#", "1", "1", "2", "2", "3", "3", "z", "z">>} }

InterpolateCalls ==
  { [fn |-> "interpolateColor", a |-> a, b |-> b, t |-> t] :
      a \in StopColors, b \in StopColors,
      t \in {-500000, 0, 1, 250000, 333333, 500000, 999999, TScale, 1500000} }

AngleStrings ==
  {<<"1", "3", "5">>, <<"-", "9", "0">>, <<"0">>, <<"3", "6", "0">>, <<"-", "3", "6", "0">>, <<"7", "2", "0">>, <<"-", "4", "5", "0">>, <<"4", "5", "0">>, <<"3", "5", "9", ".", "5">>,
   <<"-", "0", ".", "5">>, <<"-", "0", ".", "0", "0", "0", "0", "0", "0", "0", "0", "0", "0", "0", "0", "0", "0", "1">>, <<"1", "0", "0", "0">>, <<"-", "1", "0", "0", "0">>, <<"9", "0", ".", "2", "5">>, <<"-", "0">>, <<"u", "p">>}

ParseLinearCalls ==
  { [fn |-> "parseBgLinearSpec", spec |-> first \o <<",", "#", "f", "f", "f", ",">> \o angle] :
      first \in {<<"#", "0", "0", "0">>, <<"#", "1", "1", "1", "8", "2", "7">>, <<"#", "0", "0", "0", "0", "0", "0", "3", "3">>}, angle \in AngleStrings }

CallSampleLinearGradient ==
  /\ call.fn = "sampleLinearGradient"
  /\ ret = NoReturn
  /\ ret' = [fn |-> call.fn, value |-> sampleLinearGradient(call.spec, call.point)]
  /\ UNCHANGED <<opts, env, run, ctl, locals, call>>

CallSampleRadialGradient ==
  /\ call.fn = "sampleRadialGradient"
  /\ ret = NoReturn
  /\ ret' = [fn |-> call.fn,
             value |-> sampleRadialGradient(call.spec, call.point, call.width, call.height)]
  /\ UNCHANGED <<opts, env, run, ctl, locals, call>>

CallInterpolateColor ==
  /\ call.fn = "interpolateColor"
  /\ ret = NoReturn
  /\ ret' = [fn |-> call.fn, value |-> interpolateColor(call.a, call.b, call.t)]
  /\ UNCHANGED <<opts, env, run, ctl, locals, call>>

CallParseBgLinearSpec ==
  /\ call.fn = "parseBgLinearSpec"
  /\ ret = NoReturn
  /\ ret' = [fn |-> call.fn, value |-> parseBgLinearSpec(call.spec)]
  /\ UNCHANGED <<opts, env, run, ctl, locals, call>>

SquircleCalls ==
  { [fn |-> "buildSquirclePath", width |-> size.width, height |-> size.height,
     radius |-> radius] :
      size \in {[width |-> 100, height |-> 50], [width |-> 40, height |-> 40],
                [width |-> 800, height |-> 400], [width |-> 55, height |-> 50],
                [width |-> 1, height |-> 1]},
      radius \in {0, 500, 5000, 10000, 12500, 20000, 25000, 60000, 200000, 1000000} }

CallBuildSquirclePath ==
  /\ call.fn = "buildSquirclePath"
  /\ ret = NoReturn
  /\ ret' = [fn |-> call.fn,
             value |-> buildSquirclePath(call.width, call.height, call.radius)]
  /\ UNCHANGED <<opts, env, run, ctl, locals, call>>

LibCalls ==
  SquircleCalls \cup ResizeCalls \cup SampleLinearCalls \cup SampleRadialCalls \cup InterpolateCalls
    \cup ParseLinearCalls

\* no command is running: its state is the state before its first step
LibInit ==
  /\ opts = BaseOpts
  /\ fileExists = FALSE
  /\ fileWrites = 0
  /\ fileContent = NoFile
  /\ stdout = <<>>
  /\ run = 1
  /\ outcomes = <<>>
  /\ pc = "dimensions"
  /\ err = NoError
  /\ InitLocals
  /\ call \in LibCalls
  /\ ret = NoReturn

LibNext ==
  \/ CallResolveResizeTarget
  \/ CallSampleLinearGradient
  \/ CallSampleRadialGradient
  \/ CallInterpolateColor
  \/ CallParseBgLinearSpec
  \/ CallBuildSquirclePath

LibSpec == LibInit /\ [][LibNext]_vars

(***************************************************************************)
(* Properties                                                              *)
(***************************************************************************)

\* C1: whenever placeholderCommand succeeds, the final font size it reports
\* (font.size and fitting.finalFontSize) is at least 8.
C1_FinalFontAtLeastMin ==
  pc = "done" => result.font.size >= 8 /\ result.fitting.finalFontSize >= 8

\* the invocations that ended with a result
OkRuns == Cardinality({i \in 1..Len(outcomes) : outcomes[i].ok})

\* C2: an invocation that ends in a usage or filesystem error has not written
\* the output file and has printed nothing: the file is written only by
\* invocations that have passed every validation (they are about to report or
\* have reported a result), and only those print.
C2_NoOutputOnFailure ==
  /\ fileWrites = OkRuns + (IF pc = "report" THEN 1 ELSE 0)
  /\ Len(stdout) <= OkRuns
  /\ pc = "failed" => /\ err # NoError
                      /\ ~outcomes[run].ok
                      /\ outcomes[run].result = NoResult
                      /\ result = NoResult

\* a second invocation fails on the file the first one wrote, and leaves it alone
C2_Witness ==
  pc = "failed" /\ run = 2 /\ err = "Output already exists" /\ fileWrites = 1

SuppliedBackgrounds ==
  {k \in {"bgColor", "bgLinear", "bgRadial"} : opts[k] # Absent /\ opts[k] # <<>>}

\* the errors thrown before the background inputs are looked at
EarlyErrors ==
  {"Conflicting values for --width and --w", "Conflicting values for --height and --h",
   "Missing required option: --width", "Missing required option: --height",
   "Invalid width", "Invalid height", "Invalid mask radius percentage",
   "Invalid mask radius", "Invalid mask value"}

ProvideOne == "Provide one of --bg-color, --bg-linear, or --bg-radial"
ChooseOne == "Choose only one of --bg-color, --bg-linear, or --bg-radial"

\* C3: the command gets past the background inputs only when exactly one of
\* --bg-color, --bg-linear, --bg-radial is supplied, and the resolved
\* background is the variant of that input; with none supplied it fails with
\* 'Provide one of ...', with several with 'Choose only one of ...' (once the
\* dimensions and the mask, which are validated first, have been accepted).
C3_ExactlyOneBackground ==
  /\ background.type # "unset" =>
       /\ Cardinality(SuppliedBackgrounds) = 1
       /\ background.type = "solid" <=> "bgColor" \in SuppliedBackgrounds
       /\ background.type = "linear" <=> "bgLinear" \in SuppliedBackgrounds
       /\ background.type = "radial" <=> "bgRadial" \in SuppliedBackgrounds
  /\ pc = "done" => result.background.type \in {"solid", "linear", "radial"}
  /\ (pc = "failed" /\ err \notin EarlyErrors) =>
       /\ Cardinality(SuppliedBackgrounds) = 0 => err = ProvideOne
       /\ Cardinality(SuppliedBackgrounds) > 1 => err = ChooseOne
  /\ err = ProvideOne => Cardinality(SuppliedBackgrounds) = 0
  /\ err = ChooseOne => Cardinality(SuppliedBackgrounds) > 1

C3_Witness ==
  pc = "done" /\ result.background.type = "radial" /\ opts.bgColor = <<>>

WithoutHash(color) == IF color # <<>> /\ Head(color) = "#" THEN Tail(color) ELSE color

\* C4: parseHexColor accepts a string only if, after the optional '#', it has
\* 3, 6 or 8 characters and every one of them is a hexadecimal digit; accepted
\* channels are integers in 0..255.
C4_AcceptsOnlyHexDigits ==
  background.type = "solid" =>
    /\ Len(WithoutHash(background.color)) \in {3, 6, 8}
    /\ \A i \in 1..Len(WithoutHash(background.color)) :
         WithoutHash(background.color)[i] \in HexDigits
    /\ \A ch \in {"r", "g", "b"} : parseHexColor(background.color)[ch] \in 0..255


\* the five sample points, in hundredths of the canvas
FivePoints ==
  {[x |-> 50, y |-> 50], [x |-> 5, y |-> 5], [x |-> 95, y |-> 5],
   [x |-> 5, y |-> 95], [x |-> 95, y |-> 95]}

GradientSample(point) ==
  IF background.type = "linear" THEN sampleLinearGradient(background, point)
  ELSE sampleRadialGradient(background, point, width, height)

\* white's and black's contrast at the sample where each is worst
WorstWhite ==
  CHOOSE m \in {whiteContrastOf(GradientSample(p)) : p \in FivePoints} :
    \A p \in FivePoints : m <= whiteContrastOf(GradientSample(p))

WorstBlack ==
  CHOOSE m \in {blackContrastOf(GradientSample(p)) : p \in FivePoints} :
    \A p \in FivePoints : m <= blackContrastOf(GradientSample(p))

\* the text stage has computed the automatic text colour
TextResolved == autoContrastText # <<>>

\* C6: for a linear or radial background the automatic text colour is decided
\* by the minimum contrast of white and of black over the five sample points
\* (0.5,0.5), (0.05,0.05), (0.95,0.05), (0.05,0.95), (0.95,0.95): the colour
\* with the higher minimum is returned, so a colour that is worse at its worst
\* sample is never returned on the strength of any single sample; for a solid
\* background the colour is autoTextColor of the background colour.
C6_WorstCaseContrastDecides ==
  TextResolved =>
    /\ autoContrastText \in {White, Black}
    /\ background.type \in {"linear", "radial"} =>
         /\ WorstWhite > WorstBlack => autoContrastText = White
         /\ WorstBlack > WorstWhite => autoContrastText = Black
         /\ autoContrastText = White =>
              \A p \in FivePoints : \E q \in FivePoints :
                blackContrastOf(GradientSample(q)) <= whiteContrastOf(GradientSample(p))
    /\ background.type = "solid" =>
         autoContrastText = autoTextColor(parseHexColor(background.color))

\* a radial background whose centre favours white while the corners make
\* white the worse choice: black is returned
C6_Witness ==
  /\ pc = "done"
  /\ background.type = "radial"
  /\ whiteContrastOf(GradientSample([x |-> 50, y |-> 50]))
       > blackContrastOf(GradientSample([x |-> 50, y |-> 50]))
  /\ WorstBlack > WorstWhite
  /\ result.textColor = Black

\* C7: a rounded or squircle mask's radius, as held in the resolved mask and
\* reported in the result, is at most min(width,height)/2.
C7_MaskRadiusClamped ==
  /\ mask.type \in {"rounded", "squircle"} =>
       /\ 2 * mask.radius <= Min2(width, height) * Milli
       /\ mask.radius = Min2(mask.radius, Min2((width * Milli) \div 2, (height * Milli) \div 2))
  /\ (pc = "done" /\ result.mask.type \in {"rounded", "squircle"}) =>
       2 * result.mask.radius <= Min2(result.width, result.height) * Milli


\* C8: the auto-shrink loop terminates: every iteration replaces fontSize by
\* max(8, floor(fontSize * 0.9)), which is strictly smaller than the value
\* before and never below 8, and every invocation that enters the loop leaves it.
C8_ShrinkLoopTerminates ==
  /\ [][ShrinkStep =>
          /\ fontSize' < fontSize
          /\ fontSize' >= 8
          /\ \/ fontSize' = 8 /\ 9 * fontSize < 90
             \/ 10 * fontSize' <= 9 * fontSize /\ 9 * fontSize < 10 * fontSize' + 10]_vars
  /\ (pc = "shrink") ~> (pc = "output")

\* the loop has run from 100 down to the floor and exited
C8_Witness ==
  pc = "output" /\ initialFontSize = 100 /\ shrinkCount = 20 /\ fontSize = 8

\* the stages after the auto-shrink loop
AfterShrink == {"output", "render", "write", "report", "done"}

LongestLine ==
  CHOOSE n \in {Len(lines[i]) : i \in 1..Len(lines)} :
    \A i \in 1..Len(lines) : Len(lines[i]) <= n

\* the estimated text block at the initial font size exceeds the available box
InitialOverflow ==
  \/ 6 * LongestLine * initialFontSize > 10 * (width - 2 * effectivePadding)
  \/ 12 * Len(lines) * initialFontSize > 10 * (height - 2 * effectivePadding)

\* C9: the final font size never exceeds the initial one, and is strictly
\* smaller whenever the initial size is above 8 and the estimated text block
\* at the initial size exceeds the available box.
C9_FinalFontAtMostInitial ==
  /\ fontSize <= initialFontSize
  /\ pc \in AfterShrink =>
       (initialFontSize > 8 /\ InitialOverflow => fontSize < initialFontSize)
  /\ pc = "done" =>
       /\ result.font.size <= initialFontSize
       /\ (initialFontSize > 8 /\ InitialOverflow) => result.fitting.finalFontSize < initialFontSize

\* 100x50, a long one-line text and --font-size 100: only the width overflows
\* at some size on the way down, and the reported size is below 100
C9_Witness ==
  /\ pc = "done"
  /\ width = 100 /\ height = 50 /\ Len(lines) = 1 /\ initialFontSize = 100
  /\ InitialOverflow
  /\ result.font.size < 100

\* C10 as stated: a second invocation with the same options has the outcome
\* of the first.
C10_IdenticalOutcomes ==
  \A i \in 2..Len(outcomes) : outcomes[i] = outcomes[1]

\* C10: an invocation repeated with the same options has the outcome of the
\* one before it (same error, or same result fields) provided --force is given
\* or the one before failed; after a success without --force it fails with
\* 'Output already exists', because the first invocation created the file.
C10_RepeatableUnlessOverwriteRefused ==
  \A i \in 2..Len(outcomes) :
    IF outcomes[i - 1].ok /\ ~opts.force
    THEN ~outcomes[i].ok /\ outcomes[i].err = "Output already exists"
    ELSE outcomes[i] = outcomes[i - 1]

\* two successful invocations with --force
C10_Witness ==
  /\ Len(outcomes) = 2 /\ opts.force
  /\ outcomes[1].ok /\ outcomes[2].ok
  /\ outcomes[2].result = outcomes[1].result


OutputExists == "Output already exists"

\* C11: while the output path exists and --force is not set no step changes
\* the file's contents, and an invocation whose options pass every earlier
\* validation fails at the overwrite check with the FilesystemError 'Output
\* already exists' (exit code 5); with --force the same check lets the
\* invocation through, it never fails with that error, and it ends with the
\* file replaced by the image it rendered.
C11_OverwriteNeedsForce ==
  /\ [][(fileExists /\ ~opts.force) => fileContent' = fileContent]_vars
  /\ [][(pc = "output" /\ fileExists /\ ~opts.force
           /\ getMimeFromExtension(opts.out) # "unsupported") =>
          /\ pc' = "failed"
          /\ err' = OutputExists
          /\ outcomes'[run].code = 5 /\ ~outcomes'[run].ok]_vars
  /\ [][(pc = "output" /\ opts.force /\ getMimeFromExtension(opts.out) # "unsupported") =>
          pc' = "render"]_vars
  /\ [][(pc = "render" /\ opts.force /\ parseHexColor(textColor).ok) => pc' = "write"]_vars
  /\ [][(pc = "write" /\ opts.force) =>
          /\ pc' = "report"
          /\ fileContent'.kind = "image"
          /\ fileContent'.image.width = width /\ fileContent'.image.height = height
          /\ fileContent'.image.fontSize = fontSize
          /\ fileContent'.image.background = background]_vars
  /\ [](pc = "failed" /\ err = OutputExists =>
          outcomes[run].code = 5 /\ fileExists /\ ~opts.force)
  /\ [](pc = "done" /\ opts.force =>
          outcomes[run].ok /\ outcomes[run].code = 0 /\ fileContent.kind = "image")

\* the first invocation finds a file, is refused and leaves it as it was
C11_Witness ==
  /\ pc = "failed" /\ run = 1 /\ err = OutputExists
  /\ outcomes[1].code = 5
  /\ fileContent = PreviousFile


Given(option) == option # Absent /\ option # <<>>

ConflictErrors ==
  {"Conflicting values for --width and --w", "Conflicting values for --height and --h"}

\* the two spellings of a dimension are both given and denote different sizes
PairDiffers(long, short) ==
  Given(long) /\ Given(short) /\ ParseInt10(long) # ParseInt10(short)

\* the dimension a pair denotes when one spelling is given or both agree
PairValue(long, short) == IF Given(long) THEN ParseInt10(long) ELSE ParseInt10(short)

DimensionsLooked == pc # "dimensions"

\* C12: once the dimensions have been looked at, the invocation has failed
\* with 'Conflicting values' (exit code 2) exactly when the two members of an
\* alias pair are both supplied and denote different dimensions; a pair whose
\* members denote the same dimension is accepted, and a single member's value
\* is the dimension used.
C12_AliasesConflictOnlyWhenDifferent ==
  DimensionsLooked =>
    /\ (PairDiffers(opts.width, opts.w) \/ PairDiffers(opts.height, opts.h)) =>
         pc = "failed" /\ err \in ConflictErrors /\ outcomes[run].code = 2
    /\ ~(PairDiffers(opts.width, opts.w) \/ PairDiffers(opts.height, opts.h)) =>
         err \notin ConflictErrors
    /\ (pc # "failed" /\ (Given(opts.width) \/ Given(opts.w))) =>
         width = PairValue(opts.width, opts.w)
    /\ (pc # "failed" /\ (Given(opts.height) \/ Given(opts.h))) =>
         height = PairValue(opts.height, opts.h)


\* the input is a number whose value is an integer
IntegerInput(s) == ToNumber(s) # NaN /\ ToNumber(s) % Milli = 0

\* C13: a command that succeeds was given a positive integer for the width,
\* the height and (if supplied) --font-size, and a non-negative integer for
\* --padding (if supplied); the width, height and font size it uses are
\* positive and the padding is the supplied value; every failure on one of
\* these inputs is a usage error.
C13_OnlyIntegersAccepted ==
  /\ pc = "done" =>
       /\ IntegerInput(Coalesce(opts.width, opts.w))
       /\ ToNumber(Coalesce(opts.width, opts.w)) = result.width * Milli
       /\ IntegerInput(Coalesce(opts.height, opts.h))
       /\ ToNumber(Coalesce(opts.height, opts.h)) = result.height * Milli
       /\ opts.fontSize # Absent => IntegerInput(opts.fontSize)
       /\ opts.padding # Absent =>
            /\ IntegerInput(opts.padding)
            /\ ToNumber(opts.padding) = result.fitting.padding * Milli
       /\ result.width > 0 /\ result.height > 0
       /\ initialFontSize > 0 /\ result.font.size > 0
       /\ result.fitting.padding >= 0
  /\ (pc = "failed" /\ err \in {"Invalid width", "Invalid height", "Invalid font size",
                                "Invalid padding"}) => outcomes[run].code = 2


\* the number of comma-separated fields of a string
FieldCount(s) == Cardinality({i \in 1..Len(s) : s[i] = ","}) + 1

\* --bg-linear is the one background input given
OnlyLinear == SuppliedBackgrounds = {"bgLinear"}

BackgroundLooked == pc \notin {"dimensions", "mask", "background"} /\ err \notin EarlyErrors

\* C14: a --bg-linear string is accepted only if it has exactly 3
\* comma-separated fields; with any other number of fields, an empty field
\* counted, it is rejected with 'Invalid --bg-linear value'.
C14_LinearNeedsThreeFields ==
  /\ background.type = "linear" =>
       /\ FieldCount(opts.bgLinear) = 3
       /\ parseHexColor(background.colors[1]).ok /\ parseHexColor(background.colors[2]).ok
       /\ background.angleDeg # NaN
  /\ (OnlyLinear /\ BackgroundLooked /\ FieldCount(opts.bgLinear) # 3) =>
       pc = "failed" /\ err = "Invalid --bg-linear value" /\ outcomes[run].code = 2
  /\ err = "Invalid --bg-linear value" => FieldCount(opts.bgLinear) # 3


OnlyRadial == SuppliedBackgrounds = {"bgRadial"}

\* the k-th comma-separated field of --bg-radial, without surrounding blanks
RadialField(k) == Trim(Split(opts.bgRadial, ",")[k])

\* a length field in thousandths of a pixel: a percentage of the base, or pixels
FieldLength(field, base) ==
  IF field # <<>> /\ field[Len(field)] = "%"
  THEN (ToNumber(SubSeq(field, 1, Len(field) - 1)) * base) \div 100
  ELSE ToNumber(field)

\* C15: a --bg-radial string is accepted only with 2 to 5 comma-separated
\* fields and rejected with any other count; absent trailing fields default to
\* cx = 50%, cy = 50%, r = 75%; a field ending in % resolves against the width
\* (cx), the height (cy) or min(width, height) (r), any other is taken as
\* pixels; the cx, cy, r held in the background echo the supplied or defaulted
\* fields.
C15_RadialFields ==
  /\ background.type = "radial" =>
       /\ FieldCount(opts.bgRadial) \in 2..5
       /\ IF FieldCount(opts.bgRadial) >= 3
          THEN /\ background.cx = RadialField(3)
               /\ background.center.x = FieldLength(RadialField(3), width)
          ELSE /\ background.cx = <<"5", "0", "%">>
               /\ 2 * background.center.x = width * Milli
       /\ IF FieldCount(opts.bgRadial) >= 4
          THEN /\ background.cy = RadialField(4)
               /\ background.center.y = FieldLength(RadialField(4), height)
          ELSE /\ background.cy = <<"5", "0", "%">>
               /\ 2 * background.center.y = height * Milli
       /\ IF FieldCount(opts.bgRadial) >= 5
          THEN /\ background.r = RadialField(5)
               /\ background.radius = FieldLength(RadialField(5), Min2(width, height))
          ELSE /\ background.r = <<"7", "5", "%">>
               /\ 4 * background.radius = 3 * Min2(width, height) * Milli
  /\ (OnlyRadial /\ BackgroundLooked /\ FieldCount(opts.bgRadial) \notin 2..5) =>
       pc = "failed" /\ err = "Invalid --bg-radial value" /\ outcomes[run].code = 2
  /\ err = "Invalid --bg-radial value" => FieldCount(opts.bgRadial) \notin 2..5


\* the background is the linear gradient #111827 -> #0ea5e9 at 135 degrees
IsExampleLinear ==
  /\ background.type = "linear"
  /\ background.colors = <<<<"#", "1", "1", "1", "8", "2", "7">>, <<"#", "0", "e", "a", "5", "e", "9">>>>
  /\ background.angleDeg = 135 * Milli

\* the canvas corners, in hundredths of the canvas
TopLeft == [x |-> 0, y |-> 0]
TopRight == [x |-> 100, y |-> 0]
BottomLeft == [x |-> 0, y |-> 100]
BottomRight == [x |-> 100, y |-> 100]

StartStop == parseHexColor(<<"#", "1", "1", "1", "8", "2", "7">>)
EndStop == parseHexColor(<<"#", "0", "e", "a", "5", "e", "9">>)

\* squared distance between two colours
ColourDistance(a, b) ==
  (a.r - b.r) * (a.r - b.r) + (a.g - b.g) * (a.g - b.g) + (a.b - b.b) * (a.b - b.b)

Closer(sample, stop, other) == ColourDistance(sample, stop) < ColourDistance(sample, other)

\* within one unit of the colour half way between the stops, channel by channel
NearMidpoint(sample) ==
  \A ch \in {"r", "g", "b"} : AbsVal(2 * sample[ch] - (StartStop[ch] + EndStop[ch])) <= 2

AfterEffects == {"shrink", "output", "render", "write", "report", "done"}

\* two spellings denote the same RGB colour
SameRgb(a, b) ==
  /\ parseHexColor(a).ok /\ parseHexColor(b).ok
  /\ parseHexColor(a).r = parseHexColor(b).r
  /\ parseHexColor(a).g = parseHexColor(b).g
  /\ parseHexColor(a).b = parseHexColor(b).b

OtherOf(color) == IF color = White THEN Black ELSE White

\* what the default effect colour is to be: the auto-contrast colour, or the
\* other of white and black when the text already has that colour
DistinctDefault ==
  IF SameRgb(autoContrastText, textColor) THEN OtherOf(autoContrastText)
  ELSE autoContrastText

\* C17: an outline or shadow colour that is not given explicitly is the
\* auto-contrast colour of the background, or the other member of
\* {#ffffff, #000000} when the text colour is that colour, so it never denotes
\* the RGB colour of the text, however the text colour is spelled.
C17_DefaultEffectColourDistinct ==
  pc \in AfterEffects =>
    /\ opts.textOutlineColor = Absent =>
         /\ textEffects.outline.color = DistinctDefault
         /\ ~SameRgb(textEffects.outline.color, textColor)
    /\ opts.textShadowColor = Absent =>
         /\ textEffects.shadow.color = DistinctDefault
         /\ ~SameRgb(textEffects.shadow.color, textColor)


MaskErrors ==
  {"Invalid mask radius percentage", "Invalid mask radius", "Invalid mask value"}

\* the mask stage has been passed: parseMaskSpec returned a mask
MaskAccepted ==
  /\ pc \notin {"dimensions", "mask"}
  /\ err \notin EarlyErrors

\* the mask value as it is matched: trimmed, in lower case
MaskText == ToLowerCase(Trim(opts.mask))

\* the text after "<keyword>:" when the mask value starts with it
RadiusText(keyword) == Trim(SliceFrom(MaskText, Len(keyword) + 1))

\* a non-empty decimal number, all of it
Numeric(s) == s # <<>> /\ ToNumber(s) # NaN

\* the radius "<keyword>:<radiusStr>" asks for: a non-negative number of
\* pixels, or a non-negative percentage of min(width,height); thousandths
RadiusAsked(radiusStr, ok) ==
  IF EndsWith(radiusStr, <<"%">>)
  THEN /\ Numeric(Slice(radiusStr, 0, Len(radiusStr) - 1))
       /\ ToNumber(Slice(radiusStr, 0, Len(radiusStr) - 1)) >= 0
       /\ ok = (Min2(width, height) * ToNumber(Slice(radiusStr, 0, Len(radiusStr) - 1))) \div 100
  ELSE /\ Numeric(radiusStr)
       /\ ToNumber(radiusStr) >= 0
       /\ ok = ToNumber(radiusStr)

\* C18: a mask that is accepted is 'circle' or absent (no radius), bare
\* 'rounded' / 'squircle' (radius 10% of min(width,height)), or
\* '<keyword>:<radius>' with a non-negative numeric radius in pixels or in
\* percent of min(width,height); every other keyword and every negative or
\* non-numeric radius ends the command with a usage error.
C18_MaskRadiusResolved ==
  /\ MaskAccepted =>
       IF ~Truthy(opts.mask) THEN mask = MaskShape("none")
       ELSE IF MaskText = KwCircle THEN mask = MaskShape("circle")
       ELSE IF MaskText \in {KwRounded, KwSquircle}
         THEN /\ mask.type = (IF MaskText = KwRounded THEN "rounded" ELSE "squircle")
              /\ 10 * mask.radius = Min2(width, height) * Milli
       ELSE IF StartsWith(MaskText, KwRounded \o <<":">>)
         THEN mask.type = "rounded" /\ RadiusAsked(RadiusText(KwRounded), mask.radius)
       ELSE IF StartsWith(MaskText, KwSquircle \o <<":">>)
         THEN mask.type = "squircle" /\ RadiusAsked(RadiusText(KwSquircle), mask.radius)
       ELSE FALSE
  /\ (pc = "failed" /\ err \in MaskErrors) =>
       outcomes[Len(outcomes)].code = ExitCodeUsageError


\* #RGB, #RRGGBB or #RRGGBBAA, the '#' optional, hexadecimal digits only
IsHexColour(color) ==
  /\ Len(WithoutHash(color)) \in {3, 6, 8}
  /\ \A i \in 1..Len(WithoutHash(color)) : WithoutHash(color)[i] \in HexDigits

\* the text colour of this invocation has been chosen
AfterText == {"padding", "font"} \cup AfterEffects

\* C19: a supplied --text-color that is a valid hex colour is the text colour
\* used for drawing and reported in the result, exactly as supplied and
\* whatever the background; the auto-contrast colour is used only when
\* --text-color is absent; a command given an invalid text colour does not
\* succeed.
C19_SuppliedTextColourWins ==
  /\ pc \in AfterText =>
       textColor = (IF opts.textColor = Absent THEN autoContrastText ELSE opts.textColor)
  /\ pc = "done" =>
       /\ result.textColor = textColor
       /\ fileContent.image.textColor = textColor
       /\ opts.textColor # Absent => IsHexColour(opts.textColor)


\* s starts with the two characters backslash, n
EscapeAt(s) == Len(s) >= 2 /\ s[1] = BackslashChar /\ s[2] = "n"

\* the number of line breaks a raw text asks for: its backslash-n escapes,
\* read left to right, and its line-break characters
RECURSIVE Breaks(_)
Breaks(s) ==
  IF s = <<>> THEN 0
  ELSE IF EscapeAt(s) THEN 1 + Breaks(SubSeq(s, 3, Len(s)))
  ELSE IF Head(s) = NewlineChar THEN 1 + Breaks(Tail(s))
  ELSE Breaks(Tail(s))

\* the raw text without its breaks
RECURSIVE Unbroken(_)
Unbroken(s) ==
  IF s = <<>> THEN <<>>
  ELSE IF EscapeAt(s) THEN Unbroken(SubSeq(s, 3, Len(s)))
  ELSE IF Head(s) = NewlineChar THEN Unbroken(Tail(s))
  ELSE <<Head(s)>> \o Unbroken(Tail(s))

RECURSIVE Concat(_)
Concat(ls) == IF ls = <<>> THEN <<>> ELSE Head(ls) \o Concat(Tail(ls))

NoBreakIn(line) ==
  \A i \in 1..Len(line) : line[i] # NewlineChar /\ ~EscapeAt(SubSeq(line, i, Len(line)))

\* the text of the invocation: --text, or '<width>x<height>' when it is omitted
TextGiven ==
  IF opts.text = Absent THEN NatToString(width) \o <<"x">> \o NatToString(height)
  ELSE opts.text

\* C20: the lines are the pieces of the text between its breaks (every
\* backslash-n escape and every line break), so there is one line more than
\* there are breaks and no line holds a break; an empty text is one empty
\* line, an omitted text is '<width>x<height>'; the drawn lines are these
\* lines and the result's 'text' is the raw text, escapes unconverted.
C20_LinesAreBreaksPlusOne ==
  /\ pc \in AfterText =>
       /\ rawText = TextGiven
       /\ Len(lines) = Breaks(rawText) + 1
       /\ \A i \in 1..Len(lines) : NoBreakIn(lines[i])
       /\ Concat(lines) = Unbroken(rawText)
       /\ opts.text = <<>> => lines = << <<>> >>
  /\ pc = "done" =>
       /\ result.text = TextGiven
       /\ fileContent.image.lines = lines

\* a text with two escapes was drawn as three lines and reported raw
C20_Witness ==
  /\ pc = "done"
  /\ opts.text = <<"a", "\\", "n", "b", "\\", "n", "c">>
  /\ lines = << <<"a">>, <<"b">>, <<"c">> >>
  /\ result.text = opts.text


\* resolveResizeTarget has returned or thrown
Resized == call.fn = "resolveResizeTarget" /\ ret.fn = "resolveResizeTarget"

\* the options of the call that are given
GivenResize == {k \in {"scale", "width", "height"} : call.opts[k] # Undefined}

\* the number an option of the call stands for
Asked(k) ==
  IF call.opts[k].type = "string" THEN ToNumber(call.opts[k].str) ELSE call.opts[k].num

\* C21: resolveResizeTarget throws UsageError when more than one of scale,
\* width, height is given, when the scale is at most 1, and when the width or
\* height asked for is below the original's; whenever it returns, the target
\* is at least the original in both dimensions; with no option it returns
\* twice the original with scale 2.
C21_ResizeNeverDownscales ==
  Resized =>
    /\ Cardinality(GivenResize) > 1 => ret.value.error = "UsageError"
    /\ (GivenResize = {"scale"} /\ Asked("scale") # NaN /\ Asked("scale") <= Milli)
         => ret.value.error = "UsageError"
    /\ (GivenResize = {"width"} /\ Asked("width") # NaN
          /\ Asked("width") < call.original.width * Milli)
         => ret.value.error = "UsageError"
    /\ (GivenResize = {"height"} /\ Asked("height") # NaN
          /\ Asked("height") < call.original.height * Milli)
         => ret.value.error = "UsageError"
    /\ ret.value.ok =>
         /\ ret.value.width >= call.original.width
         /\ ret.value.height >= call.original.height
    /\ GivenResize = {} =>
         /\ ret.value.ok
         /\ ret.value.width = 2 * call.original.width
         /\ ret.value.height = 2 * call.original.height
         /\ ret.value.scale.num = 2 * ret.value.scale.den

\* a width below the original's was refused, and a width above it accepted
\* with the height scaled up in proportion
C21_Witness ==
  /\ Resized
  /\ call.original = [width |-> 1000, height |-> 500]
  /\ GivenResize = {"width"}
  /\ \/ Asked("width") = 900 * Milli /\ ret.value.message = DownscaleNotAllowed
     \/ Asked("width") = 3000 * Milli /\ ret.value.ok /\ ret.value.height = 1500


\* a sampled colour is exactly a stop: the channels and the alpha, to the last bit
Exactly(color, stop) ==
  /\ color.r = stop.r /\ color.g = stop.g /\ color.b = stop.b
  /\ color.alpha = stop.alpha /\ color.alphaDrift = 0

Returned(fn) == call.fn = fn /\ ret.fn = fn

FirstStop == parseHexColor(call.spec.colors[1])
SecondStop == parseHexColor(call.spec.colors[2])

\* C22: a sample whose interpolation parameter is 0 is exactly the first stop
\* and one whose parameter is 1 is exactly the second stop, in r, g, b and
\* alpha, for interpolateColor, sampleLinearGradient and sampleRadialGradient.
C22_EndpointsExact ==
  /\ Returned("interpolateColor") =>
       /\ call.t = 0 => Exactly(ret.value, call.a)
       /\ call.t = TScale => Exactly(ret.value, call.b)
  /\ Returned("sampleLinearGradient") =>
       /\ linearT(call.spec, call.point) = 0 => Exactly(ret.value, FirstStop)
       /\ linearT(call.spec, call.point) = TScale => Exactly(ret.value, SecondStop)
  /\ Returned("sampleRadialGradient") =>
       /\ radialT(call.spec, call.point, call.width, call.height) = 0
            => Exactly(ret.value, FirstStop)
       /\ radialT(call.spec, call.point, call.width, call.height) = TScale
            => Exactly(ret.value, SecondStop)


\* the angle field of the spec given to parseBgLinearSpec
AngleField == TrimAndFilter(Split(call.spec, ","))[3]

\* ((v mod 360) + 360) mod 360 for an angle in thousandths
Mod360(v) == ((v % (360 * Milli)) + 360 * Milli) % (360 * Milli)

\* C23: for every finite angle v accepted in a linear spec, the stored
\* angleDeg is ((v mod 360) + 360) mod 360 and lies in [0, 360).
C23_AngleNormalised ==
  (Returned("parseBgLinearSpec") /\ ret.value.err = NoError) =>
    /\ ret.value.angleDeg >= 0
    /\ ret.value.angleDeg < 360 * Milli
    /\ ret.value.angleDeg = Mod360(ToNumber(AngleField))


\* what an enabled outline adds: ceil(outlineWidth)
OutlineShare == IF opts.textOutline THEN Ceil(textEffects.outline.width) ELSE 0

\* what an enabled shadow adds: ceil(max(|shadowDx|, |shadowDy|) + shadowBlur)
ShadowShare ==
  IF opts.textShadow
  THEN Ceil(Max2(AbsVal(textEffects.shadow.dx), AbsVal(textEffects.shadow.dy))
              + textEffects.shadow.blur)
  ELSE 0

\* C24: the effective padding is the padding plus ceil(outlineWidth) when the
\* outline is enabled plus ceil(max(|shadowDx|,|shadowDy|) + shadowBlur) when
\* the shadow is enabled; an effect that is not enabled adds nothing,
\* whatever its width, offsets and blur are.
C24_EffectivePaddingFormula ==
  /\ pc \in AfterEffects =>
       /\ effectivePadding = padding + OutlineShare + ShadowShare
       /\ (~opts.textOutline /\ ~opts.textShadow) => effectivePadding = padding
  /\ pc = "done" =>
       result.fitting.effectivePadding
         = result.fitting.padding + OutlineShare + ShadowShare

\* a disabled shadow with an offset and a blur of its own added nothing,
\* while the enabled outline of width 2.5 added 3
C24_Witness ==
  /\ pc = "done"
  /\ opts.textOutline /\ ~opts.textShadow
  /\ opts.textOutlineWidth = <<"2", ".", "5">>
  /\ opts.textShadowDy = <<"-", "4">> /\ opts.textShadowBlur = <<"3">>
  /\ result.fitting.effectivePadding = result.fitting.padding + 3


\* the effective radius of the call, in thousandths
PathRadius == squircleRadius(call.width, call.height, call.radius)

\* the points k..k+stepsPerCorner of the path lie in the box of one corner
InBox(k, left, top) ==
  \A i \in k..(k + stepsPerCorner) :
    /\ ret.value[i].x >= left /\ ret.value[i].x <= left + PathRadius
    /\ ret.value[i].y >= top /\ ret.value[i].y <= top + PathRadius

\* C25: the squircle path has the same number of points for every width,
\* height and radius: the 2 endpoints of each of the 4 edges and the points of
\* 32 steps (33 points) on each of the 4 corners, in the order top edge,
\* top-right corner, right edge, bottom-right corner, bottom edge, bottom-left
\* corner, left edge, top-left corner.
C25_SquirclePointCount ==
  Returned("buildSquirclePath") =>
    LET w == call.width * Milli
        h == call.height * Milli
        r == PathRadius
        p == ret.value
        c == stepsPerCorner + 1
    IN /\ Len(p) = 4 * 2 + 4 * (stepsPerCorner + 1)
       /\ p[1] = [x |-> r, y |-> 0] /\ p[2] = [x |-> w - r, y |-> 0]
       /\ InBox(3, w - r, 0)
       /\ p[c + 3] = [x |-> w, y |-> r] /\ p[c + 4] = [x |-> w, y |-> h - r]
       /\ InBox(c + 5, w - r, h - r)
       /\ p[2 * c + 5] = [x |-> w - r, y |-> h] /\ p[2 * c + 6] = [x |-> r, y |-> h]
       /\ InBox(2 * c + 7, 0, h - r)
       /\ p[3 * c + 7] = [x |-> 0, y |-> h - r] /\ p[3 * c + 8] = [x |-> 0, y |-> r]
       /\ InBox(3 * c + 9, 0, 0)

\* a path was built for a radius clamped to half the height and for radius 0
C25_Witness ==
  /\ Returned("buildSquirclePath")
  /\ Len(ret.value) = 140
  /\ \/ call.radius = 1000000 /\ call.width = 100 /\ PathRadius = 25000
     \/ call.radius = 0


\* C26: for a radial background whose resolved radius is zero or negative
\* the interpolation parameter is 1 and sampleRadialGradient returns the
\* outer stop colour at every sample point, the centre included.
C26_NoRadiusGivesOuterColour ==
  (Returned("sampleRadialGradient") /\ call.spec.radius <= 0) =>
    /\ radialT(call.spec, call.point, call.width, call.height) = TScale
    /\ Exactly(ret.value, SecondStop)


\* the estimated block at a font size fits the available box:
\* maxLineLength * size * 0.6 <= width - 2 * effectivePadding and
\* lineCount * size * 1.2 <= height - 2 * effectivePadding
Fits(size) ==
  /\ 6 * LongestLine * size <= 10 * (width - 2 * effectivePadding)
  /\ 12 * Len(lines) * size <= 10 * (height - 2 * effectivePadding)

\* C27: when the auto-shrink loop exits, the estimated block fits the
\* available box or the font size is at most 8; the loop never stops at a font
\* size above 8 while the estimate overflows, and it never shrinks a font
\* whose estimate already fits.
C27_ShrinkStopsWhenFitsOrAtMin ==
  /\ [](pc \in AfterShrink => (Fits(fontSize) \/ fontSize <= 8))
  /\ [][ShrinkExit => (Fits(fontSize) \/ fontSize <= 8)]_vars
  /\ [][ShrinkStep => (~Fits(fontSize) /\ fontSize > 8)]_vars
  /\ [][(pc = "shrink" /\ ~Fits(fontSize) /\ fontSize > 8) => pc' = "shrink"]_vars

\* the loop shrank the font and left it, above 8, at the first size that fits
C27_Witness ==
  /\ pc = "output"
  /\ shrinkCount > 0
  /\ fontSize > 8
  /\ Fits(fontSize)
  /\ 10 * fontSize < 9 * initialFontSize + 10


\* max(1, round(initialFontSize * 0.08)) and max(1, round(initialFontSize * 0.12)),
\* in thousandths
InitialOutlineWidth == Max2(1, (initialFontSize * 8 + 50) \div 100) * Milli
InitialShadowBlur == Max2(1, (initialFontSize * 12 + 50) \div 100) * Milli

\* everything the command has resolved, the font size apart
AllButFontSize ==
  <<width, height, mask, background, rawText, lines, autoContrastText, textColor,
    padding, fontWeight, initialFontSize, textEffects, effectivePadding>>

\* C28: the auto-shrink loop changes nothing but the font size; the default
\* outline width and the default shadow blur are those of the initial font
\* size, and they, the effect colours and the effective padding are reported
\* with the values they had before the loop, also when the final font size is
\* smaller than the initial one.
C28_ShrinkChangesOnlyFontSize ==
  /\ [][pc = "shrink" => UNCHANGED AllButFontSize]_vars
  /\ [](pc \in AfterEffects =>
          /\ (opts.textOutline /\ ~Truthy(opts.textOutlineWidth))
               => textEffects.outline.width = InitialOutlineWidth
          /\ ~Truthy(opts.textShadowBlur) => textEffects.shadow.blur = InitialShadowBlur
          /\ effectivePadding = padding + OutlineShare + ShadowShare)
  /\ [](pc = "done" =>
          /\ result.textEffects = textEffects
          /\ result.fitting.effectivePadding = effectivePadding
          /\ result.fitting.finalFontSize = fontSize)

\* the font was shrunk from 100 and the reported default outline width and
\* shadow blur are still those of size 100
C28_Witness ==
  /\ pc = "done"
  /\ initialFontSize = 100 /\ result.fitting.finalFontSize < 100
  /\ opts.textOutline /\ opts.textOutlineWidth = Absent
  /\ result.textEffects.outline.width = 8 * Milli
  /\ result.textEffects.shadow.blur = 12 * Milli
  /\ result.fitting.effectivePadding = result.fitting.padding + 8


\* C29: for every accepted option set the effective padding is at least the
\* user padding, which is at least 0: an enabled outline or shadow can only
\* enlarge the padding.
C29_EffectivePaddingAtLeastPadding ==
  pc \in AfterEffects => (effectivePadding >= padding /\ padding >= 0)

\* the command finished with exit code 0 and reports an effective padding
\* below the padding: --text-shadow --text-shadow-blur -50
C29_Counterexample ==
  ~(/\ pc = "done" /\ err = NoError
    /\ opts.textShadow /\ opts.textShadowBlur = <<"-", "5", "0">>
    /\ result.fitting.effectivePadding < result.fitting.padding)


\* v lies between x and y inclusive
Between(v, x, y) == Min2(x, y) <= v /\ v <= Max2(x, y)

\* the alpha of a sampled colour, to the last bit, lies between two alphas
AlphaBetween(color, x, y) ==
  /\ color.alpha # NaN /\ x # NaN /\ y # NaN
  /\ Between(color.alpha, x, y)
  /\ color.alpha = Min2(x, y) => color.alphaDrift >= 0
  /\ color.alpha = Max2(x, y) => color.alphaDrift <= 0

\* C30: for every pair of parsed stop colours and every t (clamped to [0,1])
\* interpolateColor returns r, g and b between the corresponding channels of
\* the two stops inclusive, hence within 0..255, and an alpha between the two
\* stops' alphas.
C30_InterpolateWithinStops ==
  Returned("interpolateColor") =>
    /\ Between(ret.value.r, call.a.r, call.b.r) /\ ret.value.r \in 0..255
    /\ Between(ret.value.g, call.a.g, call.b.g) /\ ret.value.g \in 0..255
    /\ Between(ret.value.b, call.a.b, call.b.b) /\ ret.value.b \in 0..255
    /\ AlphaBetween(ret.value, call.a.alpha, call.b.alpha)

\* interpolateColor(#ffffff, #00000033, 1) returns an alpha below 0x33/255,
\* the smaller of the two stops' alphas
C30_Counterexample ==
  ~(/\ Returned("interpolateColor")
    /\ call.a = parseHexColor(<<"#", "f", "f", "f", "f", "f", "f">>)
    /\ call.b = parseHexColor(<<"#", "0", "0", "0", "0", "0", "0", "3", "3">>)
    /\ call.t = TScale
    /\ ret.value.alpha = call.b.alpha /\ ret.value.alphaDrift < 0)

====
